---- MODULE Spec2Model ----
(***************************************************************************)
(* The interaction-mode tables of fsleyes (fsleyes/profiles/profilemap.py)  *)
(* and the event dispatch that reads them.                                  *)
(*                                                                          *)
(* The dictionaries of profilemap.py (profiles, profileHandlers,            *)
(* tempModeMap, altHandlerMap, fallbackHandlerMap) are transcribed entry    *)
(* by entry.  A Python dict / OrderedDict built from a sequence of          *)
(* (key, value) pairs is kept as that sequence, so that a duplicated key,   *)
(* a key written in another tuple order or a missing entry stays visible.   *)
(* A modifier key is named by its wx identifier without the WXK_ prefix;    *)
(* a single key k and a key tuple (k1, k2) are both kept as the sequence    *)
(* of the keys as it is written in the source.                              *)
(*                                                                          *)
(* The classes that read the tables (Profile, ProfileManager) are not part  *)
(* of the sources at hand; their behaviour is taken from sections 4.1 to    *)
(* 4.4, 5 and 7 of the specification.                                       *)
(*                                                                          *)
(* Specifications:                                                          *)
(*   Spec       the handler of one view panel: validation, mode changes,    *)
(*              modifier keys, event dispatch                               *)
(*   SpecQueue  the event loop that feeds one handler                       *)
(*   SpecCorr   CorrelateAction (actions/correlate.py)                      *)
(*   SpecRel    ReloadOverlayAction (actions/reloadoverlay.py)              *)
(*   SpecTract  TractogramOpts.updateColourClipModes                        *)
(*              (displaycontext/tractogramopts.py)                          *)
(*   SpecAlpha  MeshOpts.colour and Display.alpha                           *)
(*              (displaycontext/meshopts.py)                                *)
(*   SpecLis    the property listeners CorrelateAction,                     *)
(*              ReloadOverlayAction, TractogramOpts and MeshOpts register   *)
(*              and remove                                                  *)
(*   SpecVData  MeshOpts.vertexData and vertexDataIndex                     *)
(*              (displaycontext/meshopts.py)                                *)
(*   SpecPS     the power spectrum series of a voxel                        *)
(*              (plotting/powerspectrumseries.py)                           *)
(***************************************************************************)
EXTENDS Integers, Sequences, FiniteSets, TLC

VARIABLES
    viewType,     \* the type of the view panel that owns the handler
    profileName,  \* ViewPanel.profile: the profile selected on the panel
    profile,      \* the Profile class instantiated for (viewType, profileName)
    methods,      \* the (mode, event) pairs the profile class has a method for
    mode,         \* Profile.mode: the persistent (base) mode
    held,         \* the modifier keys currently held down
    tempMode,     \* the active temporary mode, or None
    lastEvent,    \* (effective mode, event) of the dispatch made by the last step
    calls,        \* the handler methods that dispatch invoked, in order
    outcome,      \* "handled" / "unhandled" for that dispatch, else "none"
    startup,      \* the validation pass: "pending", "ok" or "error"
    \* the event loop that feeds one handler
    inbox,        \* the inputs that arrived and are not processed yet
    arrivedMode,  \* the base mode after every mode request that arrived
    arrivedHeld,  \* the modifier keys held after every transition that arrived
    procMode,     \* the handler's base mode: the mode requests processed
    procHeld,     \* the handler's modifier keys: the transitions processed
    arrivals,     \* the number of inputs that arrived
    nextId,       \* the number of input events that arrived
    running,      \* the dispatch in progress, or NotRunning
    trace,        \* the handler invocations begun and ended, in order
    \* a CorrelateAction (actions/correlate.py)
    corrList,     \* the overlay list
    corrSelected, \* DisplayContext.selectedOverlay: an overlay of the list or None
    corrVoxel,    \* whether the display location is a voxel of the overlay
    corrFlag,     \* __correlateFlag
    corrThreads,  \* the calcCorr threads running: the (ovl, corrOvl) of each
    corrIdleQ,    \* the update functions scheduled on the idle loop
    correlateOverlays,  \* __correlateOverlays: (overlay, corrOvl) items
    overlayCorrelates,  \* __overlayCorrelates: (corrOvl, overlay) items
    corrStep,     \* what the last step was
    \* a ReloadOverlayAction (actions/reloadoverlay.py)
    relList,      \* the overlay list
    relSelected,  \* DisplayContext.selectedOverlay: an index, 0 for an empty list
    relDisk,      \* the files that exist on disk
    relEnabled,   \* Action.enabled
    relSettings,  \* per DisplayContext, the Display/DisplayOpts values of each overlay
    relGen,       \* the number of Image objects loaded by the action
    relResult,    \* how the last invocation of the action ended, or "none"
    \* a TractogramOpts (displaycontext/tractogramopts.py)
    tractList,          \* the overlays of the overlay list, in display order
    tractVData,         \* overlay.vertexDataSets() of the tractogram
    tractColourOptions, \* the choices of colourMode
    tractClipOptions,   \* the choices of clipMode
    tractColourMode,    \* TractogramOpts.colourMode
    tractClipMode,      \* TractogramOpts.clipMode
    \* (colour, clip) read by the updateColourClipModes the last step ran,
    \* << >> if it ran none
    tractSaved,
    \* colour and alpha of a registered MeshOpts (displaycontext/meshopts.py)
    meshColour,   \* MeshOpts.colour: rgb, and a, the double nearest a/100
    displayAlpha, \* Display.alpha: the double that is ulp ulps away from whole
    propagations, \* the listener calls the last assignment caused
    alphaStep,    \* the property assigned by the last step, or "init"
    \* property listeners of four components
    lisList,      \* the overlays in the overlay list
    lisListeners, \* the listeners registered: the property and the name
    lisDestroyed, \* the components whose destroy() has run
    meshRefImage, \* MeshOpts.refImage
    meshOldRef,   \* MeshOpts.__oldRefImage
    lisCalled,    \* the names whose listeners the last change called
    \* vertex data of a mesh: the master MeshOpts and one child of it
    vertexData,            \* MeshOpts.vertexData, shared by the instances
    vertexDataSets,        \* the data sets the Mesh overlay has loaded
    meshVertexData,        \* MeshOpts.__vertexData of each: None or a shape
    meshVertexDataRange,   \* MeshOpts.__vertexDataRange of each
    vertexDataIndex,       \* MeshOpts.vertexDataIndex of each
    vertexDataIndexMaxval, \* the maxval attribute of vertexDataIndex
    indexBound,            \* vertexDataIndex of the child is synced
    vdataPropagated,       \* the last change let an exception escape
    \* power spectrum series of the voxel under the cursor
    voxelData,    \* the time series at the current voxel, or None
    varNorm,      \* PowerSpectrumSeries.varNorm
    plotReal,     \* ComplexPowerSpectrumSeries.plotReal
    zeroOrderPhaseCorrection,  \* in degrees
    firstOrderPhaseCorrection, \* in units of the sample time
    cachedData,   \* ComplexPowerSpectrumSeries.__cachedData
    lastCall      \* the last call of a getData, and what came of it

profVars == << viewType, profileName, profile, methods, mode, held, tempMode,
               lastEvent, calls, outcome, startup >>

queueVars == << inbox, arrivedMode, arrivedHeld, procMode, procHeld, arrivals,
                nextId, running, trace >>

corrVars == << corrList, corrSelected, corrVoxel, corrFlag, corrThreads,
               corrIdleQ, correlateOverlays, overlayCorrelates, corrStep >>

relVars == << relList, relSelected, relDisk, relEnabled, relSettings, relGen,
              relResult >>

tractVars == << tractList, tractVData, tractColourOptions, tractClipOptions,
                tractColourMode, tractClipMode, tractSaved >>

alphaVars == << meshColour, displayAlpha, propagations, alphaStep >>

lisVars == << lisList, lisListeners, lisDestroyed, meshRefImage, meshOldRef,
              lisCalled >>

vdataVars == << vertexData, vertexDataSets, meshVertexData,
                meshVertexDataRange, vertexDataIndex, vertexDataIndexMaxval,
                indexBound, vdataPropagated >>

psVars == << voxelData, varNorm, plotReal, zeroOrderPhaseCorrection,
             firstOrderPhaseCorrection, cachedData, lastCall >>

\* Each component is followed by a specification of its own, whose steps
\* leave the variables of the other components as they are.
outsideProf == << queueVars, corrVars, relVars, tractVars, alphaVars,
        lisVars, vdataVars, psVars >>

outsideQueue == << profVars, corrVars, relVars, tractVars, alphaVars,
        lisVars, vdataVars, psVars >>

outsideCorr == << profVars, queueVars, relVars, tractVars, alphaVars,
        lisVars, vdataVars, psVars >>

outsideRel == << profVars, queueVars, corrVars, tractVars, alphaVars,
        lisVars, vdataVars, psVars >>

outsideTract == << profVars, queueVars, corrVars, relVars, alphaVars,
        lisVars, vdataVars, psVars >>

outsideAlpha == << profVars, queueVars, corrVars, relVars, tractVars,
        lisVars, vdataVars, psVars >>

outsideLis == << profVars, queueVars, corrVars, relVars, tractVars,
        alphaVars, vdataVars, psVars >>

outsideVData == << profVars, queueVars, corrVars, relVars, tractVars,
        alphaVars, lisVars, psVars >>

outsidePS == << profVars, queueVars, corrVars, relVars, tractVars,
        alphaVars, lisVars, vdataVars >>

vars == << profVars, queueVars, corrVars, relVars, tractVars, alphaVars,
        lisVars, vdataVars, psVars >>

None == "None"

NotFound == "NotFound"

NoEvent == << >>

-----------------------------------------------------------------------------
(* profilemap.py: the tables                                                *)

ViewTypes ==
    { "OrthoPanel", "LightBoxPanel", "TimeSeriesPanel", "HistogramPanel",
      "PowerSpectrumPanel", "Scene3DPanel" }

ProfileClasses ==
    { "OrthoViewProfile", "OrthoEditProfile", "OrthoCropProfile",
      "OrthoAnnotateProfile", "LightBoxViewProfile", "PlotProfile",
      "HistogramProfile", "TimeSeriesProfile", "Scene3DViewProfile" }

\* profiles: the profile names offered for each view panel type, as
\* (view type, list of names) items of the dict literal.
profiles ==
    << << "OrthoPanel",         << "view", "edit", "crop", "annotate" >> >>,
       << "LightBoxPanel",      << "view" >> >>,
       << "TimeSeriesPanel",    << "view" >> >>,
       << "HistogramPanel",     << "view" >> >>,
       << "PowerSpectrumPanel", << "view" >> >>,
       << "Scene3DPanel",       << "view" >> >> >>

profileHandlers_noAnnotate ==
    << << << "OrthoPanel",         "view" >>, "OrthoViewProfile" >>,
       << << "OrthoPanel",         "edit" >>, "OrthoEditProfile" >>,
       << << "OrthoPanel",         "crop" >>, "OrthoCropProfile" >>,
       << << "LightBoxPanel",      "view" >>, "LightBoxViewProfile" >>,
       << << "TimeSeriesPanel",    "view" >>, "TimeSeriesProfile" >>,
       << << "HistogramPanel",     "view" >>, "HistogramProfile" >>,
       << << "PowerSpectrumPanel", "view" >>, "PlotProfile" >>,
       << << "Scene3DPanel",       "view" >>, "Scene3DViewProfile" >> >>

\* profileHandlers: the Profile class of each (view type, profile name), as
\* the (key, value) items of the dict literal.
profileHandlers ==
    << << << "OrthoPanel",         "view" >>,     "OrthoViewProfile" >>,
       << << "OrthoPanel",         "edit" >>,     "OrthoEditProfile" >>,
       << << "OrthoPanel",         "crop" >>,     "OrthoCropProfile" >>,
       << << "OrthoPanel",         "annotate" >>, "OrthoAnnotateProfile" >>,
       << << "LightBoxPanel",      "view" >>,     "LightBoxViewProfile" >>,
       << << "TimeSeriesPanel",    "view" >>,     "TimeSeriesProfile" >>,
       << << "HistogramPanel",     "view" >>,     "HistogramProfile" >>,
       << << "PowerSpectrumPanel", "view" >>,     "PlotProfile" >>,
       << << "Scene3DPanel",       "view" >>,     "Scene3DViewProfile" >> >>

tempOrthoViewProfile_unsorted ==
    << <<<<"nav", <<"CONTROL">>>>, "zoom">>,
       <<<<"nav", <<"ALT">>>>, "pan">>,
       <<<<"nav", <<"SHIFT">>>>, "slice">>,
       <<<<"nav", <<"SHIFT", "CONTROL">>>>, "bricon">> >>

\* tempModeMap[OrthoViewProfile], profilemap.py:93-97 (4 entries)
tempOrthoViewProfile ==
    << <<<<"nav", <<"CONTROL">>>>, "zoom">>,
       <<<<"nav", <<"ALT">>>>, "pan">>,
       <<<<"nav", <<"SHIFT">>>>, "slice">>,
       <<<<"nav", <<"CONTROL", "SHIFT">>>>, "bricon">> >>

\* tempModeMap[OrthoEditProfile], profilemap.py:102-119 (16 entries)
tempOrthoEditProfile ==
    << <<<<"sel", <<"SHIFT">>>>, "slice">>,
       <<<<"desel", <<"SHIFT">>>>, "slice">>,
       <<<<"selint", <<"SHIFT">>>>, "slice">>,
       <<<<"fill", <<"SHIFT">>>>, "slice">>,
       <<<<"sel", <<"ALT">>>>, "pan">>,
       <<<<"desel", <<"ALT">>>>, "pan">>,
       <<<<"selint", <<"ALT">>>>, "pan">>,
       <<<<"fill", <<"ALT">>>>, "pan">>,
       <<<<"sel", <<"CONTROL">>>>, "zoom">>,
       <<<<"desel", <<"CONTROL">>>>, "zoom">>,
       <<<<"selint", <<"CONTROL">>>>, "zoom">>,
       <<<<"fill", <<"CONTROL">>>>, "zoom">>,
       <<<<"sel", <<"CONTROL", "SHIFT">>>>, "chsize">>,
       <<<<"desel", <<"CONTROL", "SHIFT">>>>, "chsize">>,
       <<<<"selint", <<"CONTROL", "SHIFT">>>>, "chthres">>,
       <<<<"selint", <<"ALT", "SHIFT">>>>, "chrad">> >>

\* tempModeMap[OrthoCropProfile], profilemap.py:121-127 (4 entries)
tempOrthoCropProfile ==
    << <<<<"crop", <<"SHIFT">>>>, "nav">>,
       <<<<"crop", <<"CONTROL">>>>, "zoom">>,
       <<<<"crop", <<"ALT">>>>, "pan">>,
       <<<<"crop", <<"CONTROL", "SHIFT">>>>, "slice">> >>

\* tempModeMap[OrthoAnnotateProfile], profilemap.py:129-156 (24 entries)
tempOrthoAnnotateProfile ==
    << <<<<"line", <<"SHIFT">>>>, "nav">>,
       <<<<"line", <<"CONTROL">>>>, "zoom">>,
       <<<<"line", <<"ALT">>>>, "pan">>,
       <<<<"line", <<"CONTROL", "SHIFT">>>>, "slice">>,
       <<<<"point", <<"SHIFT">>>>, "nav">>,
       <<<<"point", <<"CONTROL">>>>, "zoom">>,
       <<<<"point", <<"ALT">>>>, "pan">>,
       <<<<"point", <<"CONTROL", "SHIFT">>>>, "slice">>,
       <<<<"rect", <<"SHIFT">>>>, "nav">>,
       <<<<"rect", <<"CONTROL">>>>, "zoom">>,
       <<<<"rect", <<"ALT">>>>, "pan">>,
       <<<<"rect", <<"CONTROL", "SHIFT">>>>, "slice">>,
       <<<<"text", <<"SHIFT">>>>, "nav">>,
       <<<<"text", <<"CONTROL">>>>, "zoom">>,
       <<<<"text", <<"ALT">>>>, "pan">>,
       <<<<"text", <<"CONTROL", "SHIFT">>>>, "slice">>,
       <<<<"ellipse", <<"SHIFT">>>>, "nav">>,
       <<<<"ellipse", <<"CONTROL">>>>, "zoom">>,
       <<<<"ellipse", <<"ALT">>>>, "pan">>,
       <<<<"ellipse", <<"CONTROL", "SHIFT">>>>, "slice">>,
       <<<<"arrow", <<"SHIFT">>>>, "nav">>,
       <<<<"arrow", <<"CONTROL">>>>, "zoom">>,
       <<<<"arrow", <<"ALT">>>>, "pan">>,
       <<<<"arrow", <<"CONTROL", "SHIFT">>>>, "slice">> >>

\* tempModeMap[LightBoxViewProfile], profilemap.py:158-159 (1 entries)
tempLightBoxViewProfile ==
    << <<<<"view", <<"CONTROL">>>>, "zoom">> >>

\* tempModeMap[TimeSeriesProfile], profilemap.py:163-165 (1 entries)
tempTimeSeriesProfile ==
    << <<<<"panzoom", <<"CONTROL">>>>, "volume">> >>

\* tempModeMap[HistogramProfile], profilemap.py:167-169 (1 entries)
tempHistogramProfile ==
    << <<<<"panzoom", <<"CONTROL">>>>, "overlayRange">> >>

tempScene3DViewProfile_combo ==
    << <<<<"rotate", <<"CONTROL">>>>, "zoom">>,
       <<<<"rotate", <<"ALT">>>>, "pan">>,
       <<<<"rotate", <<"SHIFT">>>>, "pick">>,
       <<<<"rotate", <<"CONTROL", "SHIFT">>>>, "zoom">> >>

\* tempModeMap[Scene3DViewProfile], profilemap.py:171-175 (3 entries)
tempScene3DViewProfile ==
    << <<<<"rotate", <<"CONTROL">>>>, "zoom">>,
       <<<<"rotate", <<"ALT">>>>, "pan">>,
       <<<<"rotate", <<"SHIFT">>>>, "pick">> >>
tempModeMap_noOrthoView ==
    << << "OrthoEditProfile",     tempOrthoEditProfile >>,
       << "OrthoCropProfile",     tempOrthoCropProfile >>,
       << "OrthoAnnotateProfile", tempOrthoAnnotateProfile >>,
       << "LightBoxViewProfile",  tempLightBoxViewProfile >>,
       << "TimeSeriesProfile",    tempTimeSeriesProfile >>,
       << "HistogramProfile",     tempHistogramProfile >>,
       << "Scene3DViewProfile",   tempScene3DViewProfile >> >>

\* tempModeMap: for each Profile class, (mode, modifier keys) -> temporary mode
tempModeMap ==
    << << "OrthoViewProfile",     tempOrthoViewProfile >>,
       << "OrthoEditProfile",     tempOrthoEditProfile >>,
       << "OrthoCropProfile",     tempOrthoCropProfile >>,
       << "OrthoAnnotateProfile", tempOrthoAnnotateProfile >>,
       << "LightBoxViewProfile",  tempLightBoxViewProfile >>,
       << "TimeSeriesProfile",    tempTimeSeriesProfile >>,
       << "HistogramProfile",     tempHistogramProfile >>,
       << "Scene3DViewProfile",   tempScene3DViewProfile >> >>

\* altHandlerMap[OrthoViewProfile], profilemap.py:191-225 (16 entries)
altOrthoViewProfile ==
    << <<<<"nav", "LeftMouseDown">>, <<"nav", "LeftMouseDrag">>>>,
       <<<<"nav", "MiddleMouseDrag">>, <<"pan", "LeftMouseDrag">>>>,
       <<<<"nav", "RightMouseDown">>, <<"zoom", "RightMouseDown">>>>,
       <<<<"nav", "RightMouseDrag">>, <<"zoom", "RightMouseDrag">>>>,
       <<<<"nav", "RightMouseUp">>, <<"zoom", "RightMouseUp">>>>,
       <<<<"slice", "LeftMouseDown">>, <<"pick", "LeftMouseDown">>>>,
       <<<<"slice", "LeftMouseDrag">>, <<"pick", "LeftMouseDrag">>>>,
       <<<<"slice", "MiddleMouseDrag">>, <<"pan", "LeftMouseDrag">>>>,
       <<<<"slice", "RightMouseDown">>, <<"zoom", "RightMouseDown">>>>,
       <<<<"slice", "RightMouseDrag">>, <<"zoom", "RightMouseDrag">>>>,
       <<<<"slice", "RightMouseUp">>, <<"zoom", "RightMouseUp">>>>,
       <<<<"zoom", "RightMouseDown">>, <<"zoom", "RightMouseDrag">>>>,
       <<<<"zoom", "LeftMouseDown">>, <<"nav", "LeftMouseDown">>>>,
       <<<<"zoom", "LeftMouseDrag">>, <<"nav", "LeftMouseDrag">>>>,
       <<<<"zoom", "MiddleMouseDrag">>, <<"pan", "LeftMouseDrag">>>>,
       <<<<"pick", "LeftMouseDown">>, <<"pick", "LeftMouseDrag">>>> >>

\* altHandlerMap[OrthoEditProfile], profilemap.py:227-268 (20 entries)
altOrthoEditProfile ==
    << <<<<"sel", "Char">>, <<"nav", "Char">>>>,
       <<<<"desel", "Char">>, <<"nav", "Char">>>>,
       <<<<"selint", "Char">>, <<"nav", "Char">>>>,
       <<<<"fill", "Char">>, <<"nav", "Char">>>>,
       <<<<"sel", "RightMouseDown">>, <<"desel", "LeftMouseDown">>>>,
       <<<<"sel", "RightMouseDrag">>, <<"desel", "LeftMouseDrag">>>>,
       <<<<"sel", "RightMouseUp">>, <<"desel", "LeftMouseUp">>>>,
       <<<<"desel", "RightMouseDown">>, <<"sel", "LeftMouseDown">>>>,
       <<<<"desel", "RightMouseDrag">>, <<"sel", "LeftMouseDrag">>>>,
       <<<<"desel", "RightMouseUp">>, <<"sel", "LeftMouseUp">>>>,
       <<<<"fill", "RightMouseDown">>, <<"desel", "LeftMouseDown">>>>,
       <<<<"fill", "RightMouseDrag">>, <<"desel", "LeftMouseDrag">>>>,
       <<<<"fill", "RightMouseUp">>, <<"desel", "LeftMouseUp">>>>,
       <<<<"selint", "RightMouseDown">>, <<"desel", "LeftMouseDown">>>>,
       <<<<"selint", "RightMouseDrag">>, <<"desel", "LeftMouseDrag">>>>,
       <<<<"selint", "RightMouseUp">>, <<"desel", "LeftMouseUp">>>>,
       <<<<"desel", "MouseMove">>, <<"sel", "MouseMove">>>>,
       <<<<"sel", "MiddleMouseDrag">>, <<"pan", "LeftMouseDrag">>>>,
       <<<<"desel", "MiddleMouseDrag">>, <<"pan", "LeftMouseDrag">>>>,
       <<<<"selint", "MiddleMouseDrag">>, <<"pan", "LeftMouseDrag">>>> >>

\* altHandlerMap[OrthoCropProfile], profilemap.py:270-271 (1 entries)
altOrthoCropProfile ==
    << <<<<"crop", "MiddleMouseDrag">>, <<"pan", "LeftMouseDrag">>>> >>

\* altHandlerMap[OrthoAnnotateProfile], profilemap.py:273-303 (24 entries)
altOrthoAnnotateProfile ==
    << <<<<"line", "MiddleMouseDrag">>, <<"pan", "LeftMouseDrag">>>>,
       <<<<"point", "MiddleMouseDrag">>, <<"pan", "LeftMouseDrag">>>>,
       <<<<"rect", "MiddleMouseDrag">>, <<"pan", "LeftMouseDrag">>>>,
       <<<<"text", "MiddleMouseDrag">>, <<"pan", "LeftMouseDrag">>>>,
       <<<<"arrow", "MiddleMouseDrag">>, <<"pan", "LeftMouseDrag">>>>,
       <<<<"ellipse", "MiddleMouseDrag">>, <<"pan", "LeftMouseDrag">>>>,
       <<<<"line", "RightMouseDown">>, <<"move", "RightMouseDown">>>>,
       <<<<"point", "RightMouseDown">>, <<"move", "RightMouseDown">>>>,
       <<<<"rect", "RightMouseDown">>, <<"move", "RightMouseDown">>>>,
       <<<<"text", "RightMouseDown">>, <<"move", "RightMouseDown">>>>,
       <<<<"arrow", "RightMouseDown">>, <<"move", "RightMouseDown">>>>,
       <<<<"ellipse", "RightMouseDown">>, <<"move", "RightMouseDown">>>>,
       <<<<"line", "RightMouseDrag">>, <<"move", "RightMouseDrag">>>>,
       <<<<"point", "RightMouseDrag">>, <<"move", "RightMouseDrag">>>>,
       <<<<"rect", "RightMouseDrag">>, <<"move", "RightMouseDrag">>>>,
       <<<<"text", "RightMouseDrag">>, <<"move", "RightMouseDrag">>>>,
       <<<<"arrow", "RightMouseDrag">>, <<"move", "RightMouseDrag">>>>,
       <<<<"ellipse", "RightMouseDrag">>, <<"move", "RightMouseDrag">>>>,
       <<<<"line", "RightMouseUp">>, <<"move", "RightMouseUp">>>>,
       <<<<"point", "RightMouseUp">>, <<"move", "RightMouseUp">>>>,
       <<<<"rect", "RightMouseUp">>, <<"move", "RightMouseUp">>>>,
       <<<<"text", "RightMouseUp">>, <<"move", "RightMouseUp">>>>,
       <<<<"arrow", "RightMouseUp">>, <<"move", "RightMouseUp">>>>,
       <<<<"ellipse", "RightMouseUp">>, <<"move", "RightMouseUp">>>> >>

altLightBoxViewProfile_chained ==
    << <<<<"view", "LeftMouseDown">>, <<"view", "LeftMouseDrag">>>>,
       <<<<"view", "LeftMouseDrag">>, <<"view", "LeftMouseUp">>>> >>

\* altHandlerMap[LightBoxViewProfile], profilemap.py:305-306 (1 entries)
altLightBoxViewProfile ==
    << <<<<"view", "LeftMouseDown">>, <<"view", "LeftMouseDrag">>>> >>

\* altHandlerMap[Scene3DViewProfile], profilemap.py:308-312 (3 entries)
altScene3DViewProfile ==
    << <<<<"rotate", "MiddleMouseDown">>, <<"pan", "LeftMouseDown">>>>,
       <<<<"rotate", "MiddleMouseDrag">>, <<"pan", "LeftMouseDrag">>>>,
       <<<<"rotate", "MiddleMouseUp">>, <<"pan", "LeftMouseUp">>>> >>

fallbackOrthoViewProfile_backEdge ==
    << <<<<"pick", "LeftMouseDown">>, <<"nav", "LeftMouseDown">>>>,
       <<<<"pick", "LeftMouseDrag">>, <<"nav", "LeftMouseDrag">>>>,
       <<<<"nav", "LeftMouseDrag">>, <<"pick", "LeftMouseDown">>>> >>

fallbackOrthoViewProfile_swapped ==
    << <<<<"pick", "LeftMouseDown">>, <<"nav", "LeftMouseDrag">>>>,
       <<<<"pick", "LeftMouseDrag">>, <<"nav", "LeftMouseDown">>>> >>

\* fallbackHandlerMap[OrthoViewProfile], profilemap.py:341-344
fallbackOrthoViewProfile ==
    << <<<<"pick", "LeftMouseDown">>, <<"nav", "LeftMouseDown">>>>,
       <<<<"pick", "LeftMouseDrag">>, <<"nav", "LeftMouseDrag">>>> >>
altHandlerMap_noOrthoView ==
    << << "OrthoEditProfile",     altOrthoEditProfile >>,
       << "OrthoCropProfile",     altOrthoCropProfile >>,
       << "OrthoAnnotateProfile", altOrthoAnnotateProfile >>,
       << "LightBoxViewProfile",  altLightBoxViewProfile >>,
       << "Scene3DViewProfile",   altScene3DViewProfile >> >>

altHandlerMap_noOrthoEdit ==
    << << "OrthoViewProfile",     altOrthoViewProfile >>,
       << "OrthoCropProfile",     altOrthoCropProfile >>,
       << "OrthoAnnotateProfile", altOrthoAnnotateProfile >>,
       << "LightBoxViewProfile",  altLightBoxViewProfile >>,
       << "Scene3DViewProfile",   altScene3DViewProfile >> >>

\* altHandlerMap: for each Profile class, (mode, event) -> (mode, event) whose
\* handler is used instead
altHandlerMap ==
    << << "OrthoViewProfile",     altOrthoViewProfile >>,
       << "OrthoEditProfile",     altOrthoEditProfile >>,
       << "OrthoCropProfile",     altOrthoCropProfile >>,
       << "OrthoAnnotateProfile", altOrthoAnnotateProfile >>,
       << "LightBoxViewProfile",  altLightBoxViewProfile >>,
       << "Scene3DViewProfile",   altScene3DViewProfile >> >>

\* fallbackHandlerMap: for each Profile class, (mode, event) -> (mode, event)
\* whose handler is called when the first handler returns False
fallbackHandlerMap ==
    << << "OrthoViewProfile", fallbackOrthoViewProfile >> >>

\* The modifier keys, in the order the key tuples of tempModeMap must be
\* written in: alphabetical by identifier (WXK_ALT, WXK_CONTROL, WXK_SHIFT).
KeyOrder == << "ALT", "CONTROL", "SHIFT" >>

ModifierKeys == { KeyOrder[i] : i \in DOMAIN KeyOrder }

\* The input events: those the tables name, and the mouse wheel, which no
\* table names.
Events ==
    { "LeftMouseDown", "LeftMouseDrag", "LeftMouseUp",
      "RightMouseDown", "RightMouseDrag", "RightMouseUp",
      "MiddleMouseDown", "MiddleMouseDrag", "MiddleMouseUp",
      "MouseMove", "Char", "MouseWheel" }

-----------------------------------------------------------------------------
(* Python dict semantics over a sequence of (key, value) items             *)

Range(s) == { s[i] : i \in DOMAIN s }

HasKey(d, k) == \E i \in DOMAIN d : d[i][1] = k

\* The number of items of the literal written with the key k.
KeyCount(d, k) == Cardinality({ i \in DOMAIN d : d[i][1] = k })

\* d[k]: of several items with the same key the last one written wins.
Get(d, k) ==
    d[CHOOSE i \in DOMAIN d :
          /\ d[i][1] = k
          /\ \A j \in DOMAIN d : j > i => d[j][1] # k][2]

\* d.get(k, default)
DictGet(d, k, default) == IF HasKey(d, k) THEN Get(d, k) ELSE default

Keys(d) == { d[i][1] : i \in DOMAIN d }

Values(d) == { d[i][2] : i \in DOMAIN d }

-----------------------------------------------------------------------------
(* Lookups                                                                  *)

\* 4.1 Mode resolution: the handler class of a view type and profile name.
ModeResolution(v, name) == DictGet(profileHandlers, << v, name >>, NotFound)

\* The profile names offered on a view panel of type v.
ProfileOptions(v) == Range(DictGet(profiles, v, << >>))

\* The profile a view panel starts with: the first one listed.
DefaultProfile(v) == DictGet(profiles, v, << >>)[1]

TempMapOf(cls) == DictGet(tempModeMap, cls, << >>)

AltMapOf(cls) == DictGet(altHandlerMap, cls, << >>)

FallbackMapOf(cls) == DictGet(fallbackHandlerMap, cls, << >>)

\* The one canonical tuple of a set of held modifier keys.
Canon(S) == SelectSeq(KeyOrder, LAMBDA k : k \in S)

SeqToSet(s) == { s[i] : i \in DOMAIN s }

\* 4.2 Temporary mode resolution: the temporary mode of a base mode and a set
\* of held modifier keys; an exact match of the canonical key, or None.
TempModeOf(cls, base, keys) ==
    DictGet(TempMapOf(cls), << base, Canon(keys) >>, None)

\* The modes the tables name for a Profile class.
TableModes(cls) ==
    LET redirects == Range(AltMapOf(cls)) \cup Range(FallbackMapOf(cls))
    IN  { e[1][1] : e \in Range(TempMapOf(cls)) }
          \cup { e[2] : e \in Range(TempMapOf(cls)) }
          \cup { e[1][1] : e \in redirects }
          \cup { e[2][1] : e \in redirects }

\* The modes of a Profile class.  The tables name none for the PlotProfile,
\* which has the panzoom mode only.
ModesOf(cls) == IF TableModes(cls) = {} THEN { "panzoom" } ELSE TableModes(cls)

RedirectKeys(cls) == Keys(AltMapOf(cls)) \cup Keys(FallbackMapOf(cls))

RedirectTargets(cls) == Values(AltMapOf(cls)) \cup Values(FallbackMapOf(cls))

\* The sets of handler methods a Profile class may define: a method for
\* every redirect target, and possibly for the redirected pairs too, or for
\* every pair.
MethodSets(cls) ==
    { RedirectTargets(cls),
      RedirectTargets(cls) \cup RedirectKeys(cls),
      ModesOf(cls) \X Events }
        \cup { RedirectTargets(cls) \ { t } : t \in RedirectTargets(cls) }

\* The startup validation pass over the declared maps accepts everything
Validated_none(cls, meths) == TRUE

\* 7 Error handling: the startup validation pass over the declared maps of a
\* handler.  Every redirect target is a handler method of the class.
Validated(cls, meths) == RedirectTargets(cls) \subseteq meths

\* The mode events are dispatched in.
EffectiveMode == IF tempMode = None THEN mode ELSE tempMode

\* 4.3 step 2 and 3: the pair whose handler method is used for (m, ev).
PrimaryOf(cls, m, ev) == DictGet(AltMapOf(cls), << m, ev >>, << m, ev >>)

Invoke(pair, r) == [ method |-> pair, ret |-> r ]

\* 4.3 with the fallback invoked whatever the first handler returned
DispatchResult_alwaysFallback(cls, meths, m, ev, r1, r2) ==
    LET prim == PrimaryOf(cls, m, ev)
        fb   == DictGet(FallbackMapOf(cls), << m, ev >>, NoEvent)
    IN  IF fb \in meths
        THEN [ calls   |-> << Invoke(prim, r1), Invoke(fb, r2) >>,
               outcome |-> IF r1 \/ r2 THEN "handled" ELSE "unhandled" ]
        ELSE [ calls   |-> << Invoke(prim, r1) >>,
               outcome |-> IF r1 THEN "handled" ELSE "unhandled" ]

\* 4.3 with a missing handler method looked up without a default
DispatchResult_noDefault(cls, meths, m, ev, r1, r2) ==
    LET prim == PrimaryOf(cls, m, ev)
    IN  IF prim \notin meths
        THEN [ calls |-> << >>, outcome |-> "error" ]
        ELSE [ calls   |-> << Invoke(prim, r1) >>,
               outcome |-> IF r1 THEN "handled" ELSE "unhandled" ]

\* 4.3 Event dispatch with redirection: the handler methods invoked for the
\* event ev in the mode m, in order, and the outcome.  r1 and r2 are what the
\* first and the fallback handler return.  A redirect to a pair the class has
\* no method for fails.
DispatchResult(cls, meths, m, ev, r1, r2) ==
    LET prim == PrimaryOf(cls, m, ev)
        fb   == DictGet(FallbackMapOf(cls), << m, ev >>, NoEvent)
    IN  IF HasKey(AltMapOf(cls), << m, ev >>) /\ prim \notin meths
        THEN [ calls |-> << >>, outcome |-> "error" ]
        ELSE IF prim \notin meths
        THEN [ calls |-> << >>, outcome |-> "unhandled" ]
        ELSE IF r1
        THEN [ calls |-> << Invoke(prim, TRUE) >>, outcome |-> "handled" ]
        ELSE IF HasKey(FallbackMapOf(cls), << m, ev >>) /\ fb \notin meths
        THEN [ calls |-> << Invoke(prim, FALSE) >>, outcome |-> "error" ]
        ELSE IF fb \in meths
        THEN [ calls   |-> << Invoke(prim, FALSE), Invoke(fb, r2) >>,
               outcome |-> IF r2 THEN "handled" ELSE "unhandled" ]
        ELSE [ calls |-> << Invoke(prim, FALSE) >>, outcome |-> "unhandled" ]

-----------------------------------------------------------------------------
(* The handler of one view panel                                            *)

NoDispatch ==
    /\ lastEvent' = NoEvent
    /\ calls' = << >>
    /\ outcome' = "none"

\* A handler at rest: the state of the handler while another component is
\* looked at.
IdleProf ==
    /\ viewType = "OrthoPanel"
    /\ profileName = DefaultProfile(viewType)
    /\ profile = ModeResolution(viewType, profileName)
    /\ methods = ModesOf(profile) \X Events
    /\ mode = "nav"
    /\ held = {}
    /\ tempMode = None
    /\ lastEvent = NoEvent
    /\ calls = << >>
    /\ outcome = "none"
    /\ startup = "ok"

\* No dispatch is in progress.
NotRunning ==
    [ id |-> 0, ev |-> None, mode |-> None, expect |-> None, stage |-> "idle" ]

\* No input has arrived.
IdleQueue ==
    /\ inbox = << >>
    /\ arrivedMode = "nav"
    /\ arrivedHeld = {}
    /\ procMode = "nav"
    /\ procHeld = {}
    /\ arrivals = 0
    /\ nextId = 0
    /\ running = NotRunning
    /\ trace = << >>

\* A CorrelateAction that has not been invoked.
IdleCorr ==
    /\ corrList = << "f1", "f2" >>
    /\ corrSelected = "f1"
    /\ corrVoxel = TRUE
    /\ corrFlag = FALSE
    /\ corrThreads = << >>
    /\ corrIdleQ = << >>
    /\ correlateOverlays = {}
    /\ overlayCorrelates = {}
    /\ corrStep = "none"

\* reloadoverlay.py:83-92: the master DisplayContext and that of a view panel.
RelCtxs == { "master", "panel" }

\* An Image loaded from a.nii, a mesh, and an Image loaded from b.nii.
RelOverlays ==
    << [ type |-> "Image", dataSource |-> "a.nii", gen |-> 0 ],
       [ type |-> "Mesh",  dataSource |-> "m.vtk", gen |-> 0 ],
       [ type |-> "Image", dataSource |-> "b.nii", gen |-> 0 ] >>

\* A ReloadOverlayAction that has not been invoked.
IdleRel ==
    /\ relList = RelOverlays
    /\ relSelected = 1
    /\ relDisk = { "a.nii", "b.nii", "m.vtk" }
    /\ relEnabled = TRUE
    /\ relSettings = [ c \in RelCtxs |-> << "default", "default", "default" >> ]
    /\ relGen = 0
    /\ relResult = "none"

\* tractogramopts.py:60-83: a TractogramOpts after __init__, for a tractogram
\* without vertex data in a list without images.
IdleTract ==
    /\ tractList = << "tract" >>
    /\ tractVData = << >>
    /\ tractColourOptions = << "orientation" >>
    /\ tractClipOptions = << None >>
    /\ tractColourMode = "orientation"
    /\ tractClipMode = None
    /\ tractSaved = << >>

\* A double that is off ulps away from the whole number n.
Double(n, off) == [ whole |-> n, ulp |-> off ]

\* meshopts.py:206-208: the colour of a new MeshOpts, with alpha 1.0, beside
\* a Display with alpha 100.
IdleAlpha ==
    /\ meshColour = [ rgb |-> "generated", a |-> 100 ]
    /\ displayAlpha = Double(100, 0)
    /\ propagations = 0
    /\ alphaStep = "init"

\* A property of an object, and a listener registered on it under a name.
Property(obj, of, prop) == [ obj |-> obj, of |-> of, prop |-> prop ]

Listener(target, name) == [ on |-> target, name |-> name ]

Overlays == Property("overlayList", None, "overlays")

SelectedOverlay == Property("displayCtx", None, "selectedOverlay")

DisplayName(o) == Property("display", o, "name")

DisplayAlpha(o) == Property("display", o, "alpha")

OptsTransform(o) == Property("opts", o, "transform")

MeshVertices == Property("overlay", "mesh", "vertices")

\* The Nifti overlays that may be loaded beside the mesh.
LisNiftis == { "img1", "img2" }

\* correlate.py:45-50, reloadoverlay.py:42-47, tractogramopts.py:80,
\* meshopts.py:248-285: what the __init__ of each component registers on
\* objects other than itself.
Registered(c) ==
    CASE c = "CorrelateAction"     -> { SelectedOverlay, Overlays }
      [] c = "ReloadOverlayAction" -> { Overlays, SelectedOverlay }
      [] c = "TractogramOpts"      -> { Overlays }
      [] c = "MeshOpts"            ->
             { Overlays, DisplayAlpha("mesh"), MeshVertices }

LisComponents ==
    { "CorrelateAction", "ReloadOverlayAction", "TractogramOpts", "MeshOpts" }

\* The four components, created for an overlay list of the mesh and one
\* image: what __init__ registers, and for the MeshOpts what the call of
\* __overlayListChanged at meshopts.py:287 adds.  No reference image is set.
IdleLis ==
    /\ lisList = { "mesh", "img1" }
    /\ lisListeners =
           UNION { { Listener(t, c) : t \in Registered(c) } :
                     c \in LisComponents }
               \cup { Listener(DisplayName("img1"), "MeshOpts") }
    /\ lisDestroyed = {}
    /\ meshRefImage = None
    /\ meshOldRef = None
    /\ lisCalled = {}

\* The MeshOpts instances of one mesh: the master, which has no parent, and
\* a child of it in the display context of a view panel.
MeshInstances == { "master", "child" }

\* meshopts.py:225-226, 293 (the call of __vertexDataChanged that ends
\* __init__) and meshopts.py:107, 115 (the defaults of the properties): no
\* vertex data is selected, nothing is loaded.
VDataConstructed ==
    /\ vertexData = None
    /\ vertexDataSets = {}
    /\ meshVertexData = [ m \in MeshInstances |-> None ]
    /\ meshVertexDataRange = [ m \in MeshInstances |-> None ]
    /\ vertexDataIndex = [ m \in MeshInstances |-> 0 ]
    /\ vertexDataIndexMaxval = [ m \in MeshInstances |-> 0 ]
    /\ vdataPropagated = FALSE

IdleVData == VDataConstructed /\ indexBound = TRUE

\* Python's None where an array or a pair of arrays may stand.
NoData == << >>

\* What a getData returned: the series, whether it raised, and the
\* (xdata, ydata) pair.  seq tells one call from the next.
Call(seq, series, raised, value) ==
    [ seq |-> seq, series |-> series, raised |-> raised, value |-> value ]

\* powerspectrumseries.py:136, 199, 205, 211, 225: the defaults of the
\* properties, and the cache of a new ComplexPowerSpectrumSeries.
IdlePS ==
    /\ voxelData = NoData
    /\ varNorm = FALSE
    /\ plotReal = TRUE
    /\ zeroOrderPhaseCorrection = 0
    /\ firstOrderPhaseCorrection = 0
    /\ cachedData = << NoData, NoData >>
    /\ lastCall = Call(0, None, FALSE, << NoData, NoData >>)

\* The other components at rest: the initial state of a specification
\* fixes the variables it does not follow.
IdleOutsideProf == IdleQueue /\ IdleCorr /\ IdleRel /\ IdleTract /\
    IdleAlpha /\ IdleLis /\ IdleVData /\ IdlePS

IdleOutsideQueue == IdleProf /\ IdleCorr /\ IdleRel /\ IdleTract /\
    IdleAlpha /\ IdleLis /\ IdleVData /\ IdlePS

IdleOutsideCorr == IdleProf /\ IdleQueue /\ IdleRel /\ IdleTract /\
    IdleAlpha /\ IdleLis /\ IdleVData /\ IdlePS

IdleOutsideRel == IdleProf /\ IdleQueue /\ IdleCorr /\ IdleTract /\
    IdleAlpha /\ IdleLis /\ IdleVData /\ IdlePS

IdleOutsideTract == IdleProf /\ IdleQueue /\ IdleCorr /\ IdleRel /\
    IdleAlpha /\ IdleLis /\ IdleVData /\ IdlePS

IdleOutsideAlpha == IdleProf /\ IdleQueue /\ IdleCorr /\ IdleRel /\
    IdleTract /\ IdleLis /\ IdleVData /\ IdlePS

IdleOutsideLis == IdleProf /\ IdleQueue /\ IdleCorr /\ IdleRel /\
    IdleTract /\ IdleAlpha /\ IdleVData /\ IdlePS

IdleOutsideVData == IdleProf /\ IdleQueue /\ IdleCorr /\ IdleRel /\
    IdleTract /\ IdleAlpha /\ IdleLis /\ IdlePS

IdleOutsidePS == IdleProf /\ IdleQueue /\ IdleCorr /\ IdleRel /\
    IdleTract /\ IdleAlpha /\ IdleLis /\ IdleVData

Init ==
    /\ IdleOutsideProf
    /\ viewType \in ViewTypes
    /\ profileName = DefaultProfile(viewType)
    /\ profile = ModeResolution(viewType, profileName)
    /\ methods \in MethodSets(profile)
    /\ mode \in ModesOf(profile)
    /\ held = {}
    /\ tempMode = None
    /\ lastEvent = NoEvent
    /\ calls = << >>
    /\ outcome = "none"
    /\ startup = "pending"

\* 7 Error handling: the validation pass at startup.  A redirect target
\* without a handler method is fatal.
Validate ==
    /\ startup = "pending"
    /\ startup' = IF Validated(profile, methods) THEN "ok" ELSE "error"
    /\ UNCHANGED << viewType, profileName, profile, methods, mode, held,
                    tempMode, lastEvent, calls, outcome >>
    /\ UNCHANGED outsideProf

\* The view panel's profile is changed: the handler is destroyed and one of
\* the class the mode table gives is created.
ChangeProfile(name) ==
    /\ startup = "ok"
    /\ name \in ProfileOptions(viewType)
    /\ name # profileName
    /\ startup' = "pending"
    /\ profileName' = name
    /\ profile' = ModeResolution(viewType, name)
    /\ methods' \in MethodSets(profile')
    /\ mode' \in ModesOf(profile')
    /\ tempMode' = TempModeOf(profile', mode', held)
    /\ NoDispatch
    /\ UNCHANGED << viewType, held >>
    /\ UNCHANGED outsideProf

\* 4.4 (a): an explicit mode change request.
SetMode(m) ==
    /\ startup = "ok"
    /\ m \in ModesOf(profile)
    /\ m # mode
    /\ mode' = m
    /\ tempMode' = TempModeOf(profile, m, held)
    /\ NoDispatch
    /\ UNCHANGED << viewType, profileName, profile, methods, held, startup >>
    /\ UNCHANGED outsideProf

\* 4.4 (b): a modifier key is pressed.
KeyDown(k) ==
    /\ startup = "ok"
    /\ k \in ModifierKeys \ held
    /\ held' = held \cup { k }
    /\ tempMode' = TempModeOf(profile, mode, held')
    /\ NoDispatch
    /\ UNCHANGED << viewType, profileName, profile, methods, mode, startup >>
    /\ UNCHANGED outsideProf

\* 4.4 (b): a modifier key is released.
KeyUp(k) ==
    /\ startup = "ok"
    /\ k \in held
    /\ held' = held \ { k }
    /\ tempMode' = TempModeOf(profile, mode, held')
    /\ NoDispatch
    /\ UNCHANGED << viewType, profileName, profile, methods, mode, startup >>
    /\ UNCHANGED outsideProf

\* 4.3: an input event is dispatched.
Dispatch(ev) ==
    /\ startup = "ok"
    /\ \E r1, r2 \in BOOLEAN :
        LET res == DispatchResult(profile, methods, EffectiveMode, ev, r1, r2)
        IN  /\ lastEvent' = << EffectiveMode, ev >>
            /\ calls' = res.calls
            /\ outcome' = res.outcome
            /\ UNCHANGED << viewType, profileName, profile, methods, mode,
                            held, tempMode, startup >>
            /\ UNCHANGED outsideProf

Next ==
    \/ Validate
    \/ \E name \in ProfileOptions(viewType) : ChangeProfile(name)
    \/ \E m \in ModesOf(profile) : SetMode(m)
    \/ \E k \in ModifierKeys : KeyDown(k)
    \/ \E k \in ModifierKeys : KeyUp(k)
    \/ \E ev \in Events : Dispatch(ev)

Spec == Init /\ [][Next]_vars

-----------------------------------------------------------------------------
(* The event loop of one handler: section 5 of the specification           *)

\* The handler the event loop feeds, the base modes requested of it, the
\* modifier keys pressed and the events sent to it.
QueueProfile == "OrthoViewProfile"

QueueModes == { "nav", "pick" }

QueueKeys == { "SHIFT" }

QueueEvents == { "LeftMouseDown" }

\* The number of inputs that arrive.
MaxArrivals == 5

\* 4.3 step 1: the effective mode for a base mode and a set of held keys.
ModeUnder(base, keys) ==
    LET t == TempModeOf(QueueProfile, base, keys)
    IN  IF t = None THEN base ELSE t

Input(kind, arg, id, expect) ==
    [ kind |-> kind, arg |-> arg, id |-> id, expect |-> expect ]

\* The modifier keys a dispatch uses, were the keyboard polled when the event
\* is dispatched
DispatchHeld_polled == arrivedHeld

\* The modifier keys a dispatch uses: those of the transitions processed.
DispatchHeld == procHeld

Invocation(at, handler) ==
    [ id |-> running.id, at |-> at, handler |-> handler,
      mode |-> running.mode, expect |-> running.expect ]

\* 4.4 (a): a mode change request arrives.
ArriveMode(m) ==
    /\ arrivals < MaxArrivals
    /\ m \in QueueModes \ { arrivedMode }
    /\ inbox' = Append(inbox, Input("mode", m, 0, None))
    /\ arrivedMode' = m
    /\ arrivals' = arrivals + 1
    /\ UNCHANGED << arrivedHeld, procMode, procHeld, nextId, running, trace >>
    /\ UNCHANGED outsideQueue

\* 4.4 (b): a modifier key transition arrives.
ArriveKey(k) ==
    /\ arrivals < MaxArrivals
    /\ inbox' = Append(inbox, Input("key", k, 0, None))
    /\ arrivedHeld' = IF k \in arrivedHeld THEN arrivedHeld \ { k }
                                           ELSE arrivedHeld \cup { k }
    /\ arrivals' = arrivals + 1
    /\ UNCHANGED << arrivedMode, procMode, procHeld, nextId, running, trace >>
    /\ UNCHANGED outsideQueue

\* An input event arrives.  It is tagged with the effective mode the inputs
\* that arrived before it determine.
ArriveEvent(ev) ==
    /\ arrivals < MaxArrivals
    /\ inbox' = Append(inbox, Input("event", ev, nextId + 1,
                                    ModeUnder(arrivedMode, arrivedHeld)))
    /\ nextId' = nextId + 1
    /\ arrivals' = arrivals + 1
    /\ UNCHANGED << arrivedMode, arrivedHeld, procMode, procHeld, running,
                    trace >>
    /\ UNCHANGED outsideQueue

\* The event loop hands the next input to the handler: a mode request.
ProcessMode ==
    /\ running = NotRunning
    /\ inbox # << >>
    /\ Head(inbox).kind = "mode"
    /\ procMode' = Head(inbox).arg
    /\ inbox' = Tail(inbox)
    /\ UNCHANGED << arrivedMode, arrivedHeld, procHeld, arrivals, nextId,
                    running, trace >>
    /\ UNCHANGED outsideQueue

\* The event loop hands the next input to the handler: a key transition.
ProcessKey ==
    /\ running = NotRunning
    /\ inbox # << >>
    /\ Head(inbox).kind = "key"
    /\ procHeld' = LET k == Head(inbox).arg
                   IN  IF k \in procHeld THEN procHeld \ { k }
                                         ELSE procHeld \cup { k }
    /\ inbox' = Tail(inbox)
    /\ UNCHANGED << arrivedMode, arrivedHeld, procMode, arrivals, nextId,
                    running, trace >>
    /\ UNCHANGED outsideQueue

\* 4.3 steps 1 to 4: the event loop hands the next input to the handler, an
\* event, and its first handler is invoked.
BeginDispatch ==
    /\ running = NotRunning
    /\ inbox # << >>
    /\ Head(inbox).kind = "event"
    /\ LET in == Head(inbox)
           m  == ModeUnder(procMode, DispatchHeld)
       IN  /\ running' = [ id |-> in.id, ev |-> in.arg, mode |-> m,
                           expect |-> in.expect, stage |-> "primary" ]
           /\ trace' = Append(trace,
                  [ id |-> in.id, at |-> "begin",
                    handler |-> PrimaryOf(QueueProfile, m, in.arg),
                    mode |-> m, expect |-> in.expect ])
    /\ inbox' = Tail(inbox)
    /\ UNCHANGED << arrivedMode, arrivedHeld, procMode, procHeld, arrivals,
                    nextId >>
    /\ UNCHANGED outsideQueue

\* 4.3 step 5: the first handler returns r.  If it declines and the pair has
\* a fallback entry, the fallback handler is invoked.
PrimaryReturn(r) ==
    /\ running # NotRunning
    /\ running.stage = "primary"
    /\ LET pair == << running.mode, running.ev >>
           prim == PrimaryOf(QueueProfile, running.mode, running.ev)
           fb   == DictGet(FallbackMapOf(QueueProfile), pair, NoEvent)
       IN  IF r \/ fb = NoEvent
           THEN /\ running' = NotRunning
                /\ trace' = Append(trace, Invocation("end", prim))
           ELSE /\ running' = [ running EXCEPT !.stage = "fallback" ]
                /\ trace' = trace \o << Invocation("end", prim),
                                        Invocation("begin", fb) >>
    /\ UNCHANGED << inbox, arrivedMode, arrivedHeld, procMode, procHeld,
                    arrivals, nextId >>
    /\ UNCHANGED outsideQueue

\* 4.3 step 5: the fallback handler returns.
FallbackReturn ==
    /\ running # NotRunning
    /\ running.stage = "fallback"
    /\ running' = NotRunning
    /\ trace' = Append(trace,
           Invocation("end", Get(FallbackMapOf(QueueProfile),
                                 << running.mode, running.ev >>)))
    /\ UNCHANGED << inbox, arrivedMode, arrivedHeld, procMode, procHeld,
                    arrivals, nextId >>
    /\ UNCHANGED outsideQueue

InitQueue == IdleOutsideQueue /\ IdleQueue

NextQueue ==
    \/ \E m \in QueueModes : ArriveMode(m)
    \/ \E k \in QueueKeys : ArriveKey(k)
    \/ \E ev \in QueueEvents : ArriveEvent(ev)
    \/ ProcessMode
    \/ ProcessKey
    \/ BeginDispatch
    \/ \E r \in BOOLEAN : PrimaryReturn(r)
    \/ FallbackReturn

SpecQueue == InitQueue /\ [][NextQueue]_vars

-----------------------------------------------------------------------------
(* CorrelateAction: actions/correlate.py                                    *)

\* The 4D images loaded.
CorrImages == { "f1", "f2" }

\* correlate.py:113: the name of the correlation overlay of an overlay.
CorrName(o) == IF o = "f1" THEN "f1/correlation" ELSE "f2/correlation"

\* The number of correlation jobs the model follows.
MaxJobs == 2

\* correlate.py:140 without the test of the flag
CorrelateBusy_unchecked == FALSE

\* correlate.py:140: self.__correlateFlag.is_set()
CorrelateBusy == corrFlag

Job(ovl, corrOvl) == [ ovl |-> ovl, corrOvl |-> corrOvl ]

\* correlate.py:99-107 __clearCorrelateOverlays, for the overlay list l.
ClearedCorrelates(l) ==
    { e \in correlateOverlays : e[1] \in SeqToSet(l) /\ e[2] \in SeqToSet(l) }

ClearedSources(l) ==
    { e \in overlayCorrelates : e[2] \in SeqToSet(l) /\ e[1] \in SeqToSet(l) }

\* correlate.py:73-87: the action is enabled for a 4D image and for a
\* correlation overlay.
CorrEnabled ==
    \/ corrSelected \in CorrImages
    \/ \E e \in overlayCorrelates : e[1] = corrSelected

\* correlate.py:133-224 __correlate: the action is invoked.
Correlate ==
    /\ CorrEnabled
    /\ Len(corrThreads) + Len(corrIdleQ) < MaxJobs
    /\ IF CorrelateBusy
       THEN /\ corrStep' = "ignored"
            /\ UNCHANGED << corrFlag, corrThreads >>
       ELSE LET own  == { e \in correlateOverlays : e[1] = corrSelected }
                src  == { e \in overlayCorrelates : e[1] = corrSelected }
                ovl  == IF own = {} /\ src # {}
                        THEN (CHOOSE e \in src : TRUE)[2] ELSE corrSelected
                corr == IF own # {} THEN (CHOOSE e \in own : TRUE)[2]
                        ELSE IF src # {} THEN corrSelected ELSE None
            IN  IF ~corrVoxel
                THEN /\ corrStep' = "novoxel"
                     /\ UNCHANGED << corrFlag, corrThreads >>
                ELSE /\ corrStep' = "accepted"
                     /\ corrFlag' = TRUE
                     /\ corrThreads' = Append(corrThreads, Job(ovl, corr))
    /\ UNCHANGED << corrList, corrSelected, corrVoxel, corrIdleQ,
                    correlateOverlays, overlayCorrelates >>
    /\ UNCHANGED outsideCorr

\* correlate.py:186-219 calcCorr: a computation thread ends and schedules
\* the update on the idle loop.
CalcCorrDone ==
    /\ corrThreads # << >>
    /\ corrIdleQ' = Append(corrIdleQ, Head(corrThreads))
    /\ corrThreads' = Tail(corrThreads)
    /\ corrStep' = "calculated"
    /\ UNCHANGED << corrList, corrSelected, corrVoxel, corrFlag,
                    correlateOverlays, overlayCorrelates >>
    /\ UNCHANGED outsideCorr

\* correlate.py:199-217 update, on the main thread.  The data of an existing
\* correlation overlay is replaced, or an overlay is created (110-131):
\* getDisplay fails for an overlay that has left the list; the append
\* notifies __overlayListChanged before the dictionaries get the new pair.
\* The flag is cleared in every case.
CorrUpdate ==
    /\ corrIdleQ # << >>
    /\ LET job == Head(corrIdleQ)
           new == CorrName(job.ovl)
       IN  IF job.corrOvl = None /\ job.ovl \in SeqToSet(corrList)
           THEN LET l == Append(corrList, new)
                IN  /\ corrList' = l
                    /\ correlateOverlays' =
                           { e \in ClearedCorrelates(l) : e[1] # job.ovl }
                               \cup { << job.ovl, new >> }
                    /\ overlayCorrelates' =
                           { e \in ClearedSources(l) : e[1] # new }
                               \cup { << new, job.ovl >> }
           ELSE UNCHANGED << corrList, correlateOverlays, overlayCorrelates >>
    /\ corrIdleQ' = Tail(corrIdleQ)
    /\ corrFlag' = FALSE
    /\ corrStep' = "updated"
    /\ UNCHANGED << corrSelected, corrVoxel, corrThreads >>
    /\ UNCHANGED outsideCorr

\* The user selects another overlay.
CorrSelect(o) ==
    /\ o \in SeqToSet(corrList) \ { corrSelected }
    /\ corrSelected' = o
    /\ corrStep' = "selected"
    /\ UNCHANGED << corrList, corrVoxel, corrFlag, corrThreads, corrIdleQ,
                    correlateOverlays, overlayCorrelates >>
    /\ UNCHANGED outsideCorr

\* The display location moves into or out of the selected overlay.
CorrMove ==
    /\ corrVoxel' = ~corrVoxel
    /\ corrStep' = "moved"
    /\ UNCHANGED << corrList, corrSelected, corrFlag, corrThreads, corrIdleQ,
                    correlateOverlays, overlayCorrelates >>
    /\ UNCHANGED outsideCorr

\* An overlay is removed from the list: correlate.py:90-94
\* __overlayListChanged.  The selection moves to the first overlay left.
CorrRemove(o) ==
    /\ o \in SeqToSet(corrList)
    /\ LET l == SelectSeq(corrList, LAMBDA x : x # o)
       IN  /\ corrList' = l
           /\ correlateOverlays' = ClearedCorrelates(l)
           /\ overlayCorrelates' = ClearedSources(l)
           /\ corrSelected' = IF corrSelected # o THEN corrSelected
                              ELSE IF l = << >> THEN None ELSE l[1]
    /\ corrStep' = "removed"
    /\ UNCHANGED << corrVoxel, corrFlag, corrThreads, corrIdleQ >>
    /\ UNCHANGED outsideCorr

InitCorr ==
    /\ IdleOutsideCorr
    /\ corrList = << "f1", "f2" >>
    /\ corrSelected \in CorrImages
    /\ corrVoxel \in BOOLEAN
    /\ corrFlag = FALSE
    /\ corrThreads = << >>
    /\ corrIdleQ = << >>
    /\ correlateOverlays = {}
    /\ overlayCorrelates = {}
    /\ corrStep = "none"

NextCorr ==
    \/ Correlate
    \/ CalcCorrDone
    \/ CorrUpdate
    \/ \E o \in SeqToSet(corrList) : CorrSelect(o)
    \/ CorrMove
    \/ \E o \in SeqToSet(corrList) : CorrRemove(o)

SpecCorr == InitCorr /\ [][NextCorr]_vars

-----------------------------------------------------------------------------
(* ReloadOverlayAction: actions/reloadoverlay.py                            *)

\* The values of the Display/DisplayOpts properties of an overlay in one
\* DisplayContext: those a new Display starts with, or others.
RelValues == { "default", "custom" }

RelFiles == { "a.nii", "b.nii" }

\* The number of reloads the model follows.
MaxReloads == 2

\* list.remove(x) for the item at index i.
RemoveAt(s, i) ==
    [ j \in 1 .. (Len(s) - 1) |-> IF j < i THEN s[j] ELSE s[j + 1] ]

\* The overlay put back at the end of the list
InsertAt_append(s, i, x) == Append(s, x)

\* reloadoverlay.py:125 list.insert(i, x).
InsertAt(s, i, x) ==
    [ j \in 1 .. (Len(s) + 1) |->
        IF j < i THEN s[j] ELSE IF j = i THEN x ELSE s[j - 1] ]

\* reloadoverlay.py:67-71 without the test of the type
RelEnabledFor_anyType(l, sel, disk) ==
    /\ sel # 0
    /\ l[sel].dataSource # None
    /\ l[sel].dataSource \in disk

\* reloadoverlay.py:67-71: the value __selectedOverlayChanged gives enabled,
\* for an overlay list, a selection and the files on disk.
RelEnabledFor(l, sel, disk) ==
    /\ sel # 0
    /\ l[sel].dataSource # None
    /\ l[sel].type = "Image"
    /\ l[sel].dataSource \in disk

\* reloadoverlay.py:100-102: the settings saved for the DisplayContext c
\* before the overlay at index i is removed, read from the DisplayContext
\* the loop variable names
SavedSettings_perContext(c, i) == relSettings[c][i]

\* reloadoverlay.py:100-102: the settings saved for the DisplayContext c
\* before the overlay at index i is removed.  The loop reads
\* self.__displayCtx, the master DisplayContext, on every iteration.
SavedSettings(c, i) == relSettings["master"][i]

\* reloadoverlay.py:74-148 __reloadOverlay.  A selection left beyond the end
\* of the list by the removal moves to the last overlay.
ReloadOverlay ==
    /\ relGen < MaxReloads
    /\ IF relSelected = 0 \/ relList[relSelected].type # "Image"
       THEN /\ relResult' = "RuntimeError"
            /\ UNCHANGED << relList, relSelected, relEnabled, relSettings,
                            relGen >>
       ELSE LET index   == relSelected
                ovl     == relList[index]
                removed == RemoveAt(relList, index)
                new     == [ ovl EXCEPT !.gen = relGen + 1 ]
            IN  IF ovl.dataSource \notin relDisk
                THEN /\ relResult' = "IOError"
                     /\ relList' = removed
                     /\ relSettings' =
                            [ c \in RelCtxs |-> RemoveAt(relSettings[c], index) ]
                     /\ relSelected' = IF index > Len(removed)
                                       THEN Len(removed) ELSE index
                     /\ relEnabled' =
                            RelEnabledFor(relList', relSelected', relDisk)
                     /\ UNCHANGED relGen
                ELSE /\ relResult' = "reloaded"
                     /\ relList' = InsertAt(removed, index, new)
                     /\ relSettings' =
                            [ c \in RelCtxs |->
                                InsertAt(RemoveAt(relSettings[c], index),
                                         index, SavedSettings(c, index)) ]
                     /\ relSelected' \in
                            { index,
                              IF index > Len(removed) /\ removed # << >>
                              THEN Len(removed) ELSE index }
                     /\ relEnabled' =
                            RelEnabledFor(relList', relSelected', relDisk)
                     /\ relGen' = relGen + 1
    /\ UNCHANGED relDisk
    /\ UNCHANGED outsideRel

\* The user selects another overlay: reloadoverlay.py:63-71.
RelSelect(i) ==
    /\ i \in (1 .. Len(relList)) \ { relSelected }
    /\ relSelected' = i
    /\ relEnabled' = RelEnabledFor(relList, i, relDisk)
    /\ relResult' = "none"
    /\ UNCHANGED << relList, relDisk, relSettings, relGen >>
    /\ UNCHANGED outsideRel

\* The user removes an overlay from the list: reloadoverlay.py:63-71.
RelRemove(i) ==
    /\ i \in 1 .. Len(relList)
    /\ relList' = RemoveAt(relList, i)
    /\ relSettings' = [ c \in RelCtxs |-> RemoveAt(relSettings[c], i) ]
    /\ relSelected' = IF relSelected > Len(relList') THEN Len(relList')
                      ELSE relSelected
    /\ relEnabled' = RelEnabledFor(relList', relSelected', relDisk)
    /\ relResult' = "none"
    /\ UNCHANGED << relDisk, relGen >>
    /\ UNCHANGED outsideRel

\* A Display or DisplayOpts property of an overlay is changed in one
\* DisplayContext.
RelSetSetting(c, i, v) ==
    /\ i \in 1 .. Len(relList)
    /\ relSettings[c][i] # v
    /\ relSettings' = [ relSettings EXCEPT ![c][i] = v ]
    /\ relResult' = "none"
    /\ UNCHANGED << relList, relSelected, relDisk, relEnabled, relGen >>
    /\ UNCHANGED outsideRel

\* A file is deleted from disk, or written to it, by another program.
RelDelete(f) ==
    /\ f \in relDisk
    /\ relDisk' = relDisk \ { f }
    /\ relResult' = "none"
    /\ UNCHANGED << relList, relSelected, relEnabled, relSettings, relGen >>
    /\ UNCHANGED outsideRel

RelCreate(f) ==
    /\ f \notin relDisk
    /\ relDisk' = relDisk \cup { f }
    /\ relResult' = "none"
    /\ UNCHANGED << relList, relSelected, relEnabled, relSettings, relGen >>
    /\ UNCHANGED outsideRel

InitRel == IdleOutsideRel /\ IdleRel

NextRel ==
    \/ ReloadOverlay
    \/ \E i \in 1 .. Len(relList) : RelSelect(i)
    \/ \E i \in 1 .. Len(relList) : RelRemove(i)
    \/ \E c \in RelCtxs, i \in 1 .. Len(relList), v \in RelValues :
           RelSetSetting(c, i, v)
    \/ \E f \in RelFiles : RelDelete(f)
    \/ \E f \in RelFiles : RelCreate(f)

SpecRel == InitRel /\ [][NextRel]_vars

-----------------------------------------------------------------------------
(* TractogramOpts: displaycontext/tractogramopts.py                         *)

\* The overlays that may be loaded beside the tractogram: two Images and a
\* mesh.
TractImages == { "i1", "i2" }

TractOverlays == TractImages \cup { "mesh" }

\* The vertex data sets that may be loaded for the tractogram.
TractDataSets == { "vd1" }

\* tractogramopts.py:182-183: the Image overlays of the display order.
ImagesOf(l) == SelectSeq(l, LAMBDA o : o \in TractImages)

\* tractogramopts.py:185-186
ColourOptionsOf(l, vdata) == << "orientation" >> \o ImagesOf(l) \o vdata

ClipOptionsOf(l, vdata) == << None >> \o ImagesOf(l) \o vdata

\* tractogramopts.py:193-198 with the previous value assigned whatever the
\* options are
KeepOrRevert_keep(value, options, default) == value

\* tractogramopts.py:193-198: the previous value if it is an option, or the
\* default.
KeepOrRevert(value, options, default) ==
    IF value \in SeqToSet(options) THEN value ELSE default

\* tractogramopts.py:168-198 updateColourClipModes, for the overlay list l
\* and the vertex data sets vdata.
UpdateColourClipModes(l, vdata) ==
    /\ tractSaved' = << tractColourMode, tractClipMode >>
    /\ tractColourOptions' = ColourOptionsOf(l, vdata)
    /\ tractClipOptions' = ClipOptionsOf(l, vdata)
    /\ tractColourMode' =
           KeepOrRevert(tractColourMode, ColourOptionsOf(l, vdata),
                        "orientation")
    /\ tractClipMode' =
           KeepOrRevert(tractClipMode, ClipOptionsOf(l, vdata), None)

\* An overlay is added to the overlay list: the 'overlays' listener
\* (tractogramopts.py:80) runs updateColourClipModes.
TractAddOverlay(o) ==
    /\ o \in TractOverlays \ SeqToSet(tractList)
    /\ tractList' = Append(tractList, o)
    /\ UpdateColourClipModes(tractList', tractVData)
    /\ UNCHANGED tractVData
    /\ UNCHANGED outsideTract

\* An overlay other than the tractogram is removed from the overlay list.
TractRemoveOverlay(o) ==
    /\ o \in SeqToSet(tractList) \ { "tract" }
    /\ tractList' = SelectSeq(tractList, LAMBDA x : x # o)
    /\ UpdateColourClipModes(tractList', tractVData)
    /\ UNCHANGED tractVData
    /\ UNCHANGED outsideTract

\* A vertex data set is loaded, and updateColourClipModes called by the
\* loader (tractogramopts.py:169-170).
TractLoadVertexData(v) ==
    /\ v \in TractDataSets \ SeqToSet(tractVData)
    /\ tractVData' = Append(tractVData, v)
    /\ UpdateColourClipModes(tractList, tractVData')
    /\ UNCHANGED tractList
    /\ UNCHANGED outsideTract

\* colourMode is set to one of its choices.
TractSetColourMode(v) ==
    /\ v \in SeqToSet(tractColourOptions) \ { tractColourMode }
    /\ tractColourMode' = v
    /\ tractSaved' = << >>
    /\ UNCHANGED << tractList, tractVData, tractColourOptions,
                    tractClipOptions, tractClipMode >>
    /\ UNCHANGED outsideTract

\* clipMode is set to one of its choices.
TractSetClipMode(v) ==
    /\ v \in SeqToSet(tractClipOptions) \ { tractClipMode }
    /\ tractClipMode' = v
    /\ tractSaved' = << >>
    /\ UNCHANGED << tractList, tractVData, tractColourOptions,
                    tractClipOptions, tractColourMode >>
    /\ UNCHANGED outsideTract

InitTract == IdleOutsideTract /\ IdleTract

NextTract ==
    \/ \E o \in TractOverlays : TractAddOverlay(o)
    \/ \E o \in TractOverlays : TractRemoveOverlay(o)
    \/ \E v \in TractDataSets : TractLoadVertexData(v)
    \/ \E v \in SeqToSet(tractColourOptions) : TractSetColourMode(v)
    \/ \E v \in SeqToSet(tractClipOptions) : TractSetClipMode(v)

SpecTract == InitTract /\ [][NextTract]_vars

-----------------------------------------------------------------------------
(* MeshOpts.colour and Display.alpha: displaycontext/meshopts.py            *)

\* The percentages given to Display.alpha, the hundredths given to
\* colour[3], and the colours.
AlphaInputs == 0 .. 100

MeshRGBs == { "generated", "red" }

\* The whole numbers h of 0 .. 100 for which the double (h / 100.0) * 100 is
\* the double above h, and those for which it is the double below h.  For
\* every other h it is h.
RoundsUp == { 7, 14, 28, 55, 56 }

RoundsDown == { 29, 57, 58 }

\* meshopts.py:736 alpha = self.colour[3] * 100, in double arithmetic, for
\* colour[3] the double nearest h / 100.
Times100(h) ==
    Double(h, IF h \in RoundsUp THEN 1 ELSE IF h \in RoundsDown THEN 0 - 1 ELSE 0)

\* meshopts.py:750 alpha = self.display.alpha / 100.0, in double arithmetic:
\* the double nearest whole / 100, also for the doubles next to whole.
Div100(d) == d.whole

\* The listeners called without props.skip
SkipsListener_never == FALSE

\* meshopts.py:741 and 756: the write a listener makes is made within
\* props.skip of the opposite listener.
SkipsListener == TRUE

\* Display.alpha is assigned d: meshopts.py:745-757 __alphaChanged runs and
\* writes colour.  The colour listener, were it not skipped, runs if colour
\* changed and writes alpha, and so on until a write changes nothing.
AfterAlpha(colour, d) ==
    LET c1 == [ colour EXCEPT !.a = Div100(d) ]
        a2 == Times100(c1.a)
    IN  IF SkipsListener \/ c1 = colour
        THEN [ colour |-> c1, alpha |-> d, n |-> 1 ]
        ELSE IF a2 = d
        THEN [ colour |-> c1, alpha |-> d, n |-> 2 ]
        ELSE [ colour |-> c1, alpha |-> a2, n |-> 3 ]

\* MeshOpts.colour is assigned c: meshopts.py:731-742 __colourChanged runs
\* and writes Display.alpha.  The alpha listener, were it not skipped, runs
\* if alpha changed and writes colour.
AfterColour(c, alpha) ==
    LET a1 == Times100(c.a)
        c2 == [ c EXCEPT !.a = Div100(a1) ]
    IN  IF SkipsListener \/ a1 = alpha
        THEN [ colour |-> c, alpha |-> a1, n |-> 1 ]
        ELSE [ colour |-> c2, alpha |-> a1, n |-> 2 ]

\* Display.alpha is given another value.
SetAlpha(p) ==
    /\ Double(p, 0) # displayAlpha
    /\ LET r == AfterAlpha(meshColour, Double(p, 0))
       IN  /\ meshColour' = r.colour
           /\ displayAlpha' = r.alpha
           /\ propagations' = r.n
    /\ alphaStep' = "alpha"
    /\ UNCHANGED outsideAlpha

\* MeshOpts.colour is given another value.
SetColour(rgb, h) ==
    /\ [ rgb |-> rgb, a |-> h ] # meshColour
    /\ LET r == AfterColour([ rgb |-> rgb, a |-> h ], displayAlpha)
       IN  /\ meshColour' = r.colour
           /\ displayAlpha' = r.alpha
           /\ propagations' = r.n
    /\ alphaStep' = "colour"
    /\ UNCHANGED outsideAlpha

\* meshopts.py:206-208, 262-273: the colour a new MeshOpts has, and the
\* alpha of the Display that was there before it.
InitAlpha ==
    /\ IdleOutsideAlpha
    /\ meshColour = [ rgb |-> "generated", a |-> 100 ]
    /\ displayAlpha \in { Double(p, 0) : p \in AlphaInputs }
    /\ propagations = 0
    /\ alphaStep = "init"

NextAlpha ==
    \/ \E p \in AlphaInputs : SetAlpha(p)
    \/ \E rgb \in MeshRGBs, h \in AlphaInputs : SetColour(rgb, h)

SpecAlpha == InitAlpha /\ [][NextAlpha]_vars

-----------------------------------------------------------------------------
(* Listener registration and removal: correlate.py, reloadoverlay.py,       *)
(* tractogramopts.py, meshopts.py                                           *)

\* The listeners left when those of the name c on the properties ts are
\* removed.
Without(ls, ts, c) == { l \in ls : ~(l.name = c /\ l.on \in ts) }

\* The names of the listeners on the property t.
NamesOn(ls, t) == { l.name : l \in { x \in ls : x.on = t } }

\* The Display and DisplayOpts of an overlay that has left the list are
\* destroyed by the DisplayContext: their listeners go with them.
OnLiveObjects(ls, list) ==
    { l \in ls : l.on.obj \in { "display", "opts" } => l.on.of \in list }

\* meshopts.py:563-592 __refImageChanged, refImage having become new.
RefImageChanged(ls, list, old, new) ==
    LET removed == IF old # None /\ old \in list
                   THEN Without(ls, { OptsTransform(old) }, "MeshOpts")
                   ELSE ls
    IN  IF new # None
        THEN removed \cup { Listener(OptsTransform(new), "MeshOpts") }
        ELSE removed

\* meshopts.py:615-652 __overlayListChanged for the overlay list `list`: the
\* listeners afterwards and the new refImage.
MeshListChanged(ls, list) ==
    IF "mesh" \notin list
    THEN [ ls |-> Without(ls, { Overlays }, "MeshOpts"),
           ref |-> meshRefImage, old |-> meshOldRef ]
    ELSE LET named == ls \cup { Listener(DisplayName(o), "MeshOpts") :
                                  o \in list \cap LisNiftis }
         IN  IF meshRefImage = None \/ meshRefImage \in list
             THEN [ ls |-> named, ref |-> meshRefImage, old |-> meshOldRef ]
             ELSE [ ls  |-> RefImageChanged(named, list, meshOldRef, None),
                    ref |-> None, old |-> None ]

\* meshopts.py:304-337 destroy, leaving the transform listener on the
\* reference image
MeshDestroyTargets_noTransform ==
    { Overlays, DisplayAlpha("mesh"), MeshVertices }
        \cup { DisplayName(o) : o \in lisList }

\* meshopts.py:304-337 destroy: the properties whose listener is removed.
MeshDestroyTargets ==
    { Overlays, DisplayAlpha("mesh"), MeshVertices }
        \cup { DisplayName(o) : o \in lisList }
        \cup { OptsTransform(o) : o \in lisList \cap { meshRefImage } }

\* correlate.py:67-68, reloadoverlay.py:57-58, tractogramopts.py:88,
\* meshopts.py:304-337: the properties whose listener destroy() removes.
DestroyTargets(c) ==
    CASE c = "CorrelateAction"     -> { SelectedOverlay, Overlays }
      [] c = "ReloadOverlayAction" -> { Overlays, SelectedOverlay }
      [] c = "TractogramOpts"      -> { Overlays }
      [] c = "MeshOpts"            -> MeshDestroyTargets

\* The overlay list has become `list`: the Displays of the overlays that
\* left are gone, and the listeners on overlayList.overlays are called.
ListChanged(list) ==
    LET live == OnLiveObjects(lisListeners, list)
    IN  /\ lisList' = list
        /\ lisCalled' = NamesOn(lisListeners, Overlays)
        /\ IF "MeshOpts" \in NamesOn(lisListeners, Overlays)
           THEN LET r == MeshListChanged(live, list)
                IN  /\ lisListeners' = r.ls
                    /\ meshRefImage' = r.ref
                    /\ meshOldRef' = r.old
           ELSE /\ lisListeners' = live
                /\ UNCHANGED << meshRefImage, meshOldRef >>
        /\ UNCHANGED lisDestroyed

\* A Nifti overlay is added to the overlay list.
LisAddOverlay(o) ==
    /\ o \in LisNiftis \ lisList
    /\ ListChanged(lisList \cup { o })
    /\ UNCHANGED outsideLis

\* An overlay is removed from the overlay list.
LisRemoveOverlay(o) ==
    /\ o \in lisList
    /\ ListChanged(lisList \ { o })
    /\ UNCHANGED outsideLis

\* Display.name of a Nifti overlay changes: its listeners are called
\* (meshopts.py:641-644, __overlayListChanged).
LisRename(o) ==
    /\ o \in lisList \cap LisNiftis
    /\ lisCalled' = NamesOn(lisListeners, DisplayName(o))
    /\ IF "MeshOpts" \in NamesOn(lisListeners, DisplayName(o))
       THEN LET r == MeshListChanged(lisListeners, lisList)
            IN  /\ lisListeners' = r.ls
                /\ meshRefImage' = r.ref
                /\ meshOldRef' = r.old
       ELSE UNCHANGED << lisListeners, meshRefImage, meshOldRef >>
    /\ UNCHANGED << lisList, lisDestroyed >>
    /\ UNCHANGED outsideLis

\* A property that has listeners and no handler that changes listeners is
\* changed: the selected overlay, Display.alpha of the mesh, the transform
\* of the reference image, the vertices of the mesh.
LisChange(t) ==
    /\ t \in { SelectedOverlay, DisplayAlpha("mesh"), MeshVertices }
               \cup { OptsTransform(o) : o \in lisList \cap LisNiftis }
    /\ t.obj = "display" => t.of \in lisList
    /\ lisCalled' = NamesOn(lisListeners, t)
    /\ UNCHANGED << lisList, lisListeners, lisDestroyed, meshRefImage,
                    meshOldRef >>
    /\ UNCHANGED outsideLis

\* MeshOpts.refImage is set to one of its choices: meshopts.py:563-592.
LisSetRefImage(r) ==
    /\ "MeshOpts" \notin lisDestroyed
    /\ r \in ({ None } \cup (lisList \cap LisNiftis)) \ { meshRefImage }
    /\ meshRefImage' = r
    /\ meshOldRef' = r
    /\ lisListeners' = RefImageChanged(lisListeners, lisList, meshOldRef, r)
    /\ lisCalled' = { "MeshOpts" }
    /\ UNCHANGED << lisList, lisDestroyed >>
    /\ UNCHANGED outsideLis

\* destroy() of a component.
LisDestroy(c) ==
    /\ c \in LisComponents \ lisDestroyed
    /\ lisListeners' = Without(lisListeners, DestroyTargets(c), c)
    /\ lisDestroyed' = lisDestroyed \cup { c }
    /\ lisCalled' = {}
    /\ UNCHANGED << lisList, meshRefImage, meshOldRef >>
    /\ UNCHANGED outsideLis

InitLis ==
    /\ IdleOutsideLis
    /\ IdleLis

NextLis ==
    \/ \E o \in LisNiftis : LisAddOverlay(o)
    \/ \E o \in lisList : LisRemoveOverlay(o)
    \/ \E o \in LisNiftis : LisRename(o)
    \/ \E t \in { SelectedOverlay, DisplayAlpha("mesh"), MeshVertices }
                  \cup { OptsTransform(o) : o \in LisNiftis } : LisChange(t)
    \/ \E r \in { None } \cup LisNiftis : LisSetRefImage(r)
    \/ \E c \in LisComponents : LisDestroy(c)

SpecLis == InitLis /\ [][NextLis]_vars

-----------------------------------------------------------------------------
(* MeshOpts.vertexData: displaycontext/meshopts.py                          *)

\* The files offered as options of vertexData (addVertexDataOptions,
\* meshopts.py:380-392, takes them to be valid without reading them).
VDataFiles == { "thickness", "pair", "timeseries", "empty", "corrupt" }

\* What Mesh.loadVertexData makes of a file: an exception, or an array of
\* the shape below, with one value for each vertex or with several.
LoadRaises(f) == f = "corrupt"

FileShape(f) ==
    CASE f = "thickness"  -> << 4 >>
      [] f = "pair"       -> << 4, 2 >>
      [] f = "timeseries" -> << 4, 3 >>
      [] f = "empty"      -> << 0 >>

\* np.nanmin and np.nanmax raise a ValueError on an array without elements.
NanMinRaises(f) == FileShape(f)[1] = 0

FileRange(f) ==
    CASE f = "thickness"  -> << 1, 5 >>
      [] f = "pair"       -> << 0, 2 >>
      [] f = "timeseries" -> << -2, 7 >>

\* meshopts.py:706-707: vdata.reshape(-1, 1) of an array of one dimension.
Reshape(shape) == IF Len(shape) = 1 THEN << shape[1], 1 >> ELSE shape

\* meshopts.py:694-709: the body of the try.  The overlay keeps what it has
\* loaded, so a second selection of the file reads it from the overlay.
LoadAttempt(vdfile, sets) ==
    IF vdfile = None
    THEN [ raised |-> FALSE, vdata |-> None, vdataRange |-> None,
           sets |-> sets ]
    ELSE IF vdfile \notin sets /\ LoadRaises(vdfile)
    THEN [ raised |-> TRUE, vdata |-> None, vdataRange |-> None,
           sets |-> sets ]
    ELSE IF NanMinRaises(vdfile)
    THEN [ raised |-> TRUE, vdata |-> FileShape(vdfile), vdataRange |-> None,
           sets |-> sets \cup { vdfile } ]
    ELSE [ raised |-> FALSE, vdata |-> Reshape(FileShape(vdfile)),
           vdataRange |-> FileRange(vdfile), sets |-> sets \cup { vdfile } ]

ExceptHandler_reraise(attempt) == attempt

\* meshopts.py:710-717: except Exception: a warning is logged, and the data
\* and its range are None.
ExceptHandler(attempt) ==
    IF attempt.raised
    THEN [ attempt EXCEPT !.raised = FALSE, !.vdata = None,
                          !.vdataRange = None ]
    ELSE attempt

\* meshopts.py:683-728: __vertexDataChanged.  The statements after the try
\* are reached when no exception is on its way out.
VertexDataChanged(vdfile, sets) ==
    LET done == ExceptHandler(LoadAttempt(vdfile, sets))
        npoints == IF done.vdata # None THEN done.vdata[2] ELSE 1
    IN  IF done.raised
        THEN [ propagated |-> TRUE, sets |-> done.sets ]
        ELSE [ propagated |-> FALSE,
               vdata |-> done.vdata,
               vdataRange |-> done.vdataRange,
               sets |-> done.sets,
               index |-> 0,
               maxval |-> npoints - 1 ]

\* meshopts.py:235, 246-278: the listeners are registered on the instances
\* that have a parent; the master is "just a sync-slave".
ListensToVertexData(m) == m = "child"

\* meshopts.py:348-354.
getDataRange(m) ==
    IF meshVertexDataRange[m] = None THEN << 0, 1 >>
    ELSE meshVertexDataRange[m]

\* meshopts.py:357-361.
getVertexData(m) == meshVertexData[m]

\* meshopts.py:364-377.
vertexDataLen(m) ==
    IF meshVertexData[m] = None THEN 0
    ELSE IF Len(meshVertexData[m]) = 1 THEN 1
    ELSE meshVertexData[m][2]

\* meshopts.py:115: props.Int(minval=0, maxval=0, clamped=True).
Clamped(i, maxval) == IF i < 0 THEN 0 ELSE IF i > maxval THEN maxval ELSE i

IndexInputs == { -1, 0, 1, 2, 3 }

\* vertexData is assigned, on either instance: the property is in nounbind
\* (meshopts.py:228-230), so that both take the value, and the instances
\* that listen run __vertexDataChanged.  An exception that escapes the
\* listener leaves its assignments undone.  A bound vertexDataIndex of the
\* master follows the value and the maxval the child is given.
SetVertexData(f) ==
    /\ f # vertexData
    /\ vertexData' = f
    /\ LET r == VertexDataChanged(f, vertexDataSets)
           changed == { m \in MeshInstances :
                          ListensToVertexData(m) /\ ~r.propagated }
           follows == { m \in MeshInstances :
                          changed # {} /\ (m \in changed \/ indexBound) }
       IN  /\ vdataPropagated' = r.propagated
           /\ vertexDataSets' = r.sets
           /\ meshVertexData' =
                  [ m \in MeshInstances |->
                      IF m \in changed THEN r.vdata ELSE meshVertexData[m] ]
           /\ meshVertexDataRange' =
                  [ m \in MeshInstances |->
                      IF m \in changed THEN r.vdataRange
                      ELSE meshVertexDataRange[m] ]
           /\ vertexDataIndex' =
                  [ m \in MeshInstances |->
                      IF m \in follows THEN r.index ELSE vertexDataIndex[m] ]
           /\ vertexDataIndexMaxval' =
                  [ m \in MeshInstances |->
                      IF m \in follows THEN r.maxval
                      ELSE vertexDataIndexMaxval[m] ]
    /\ UNCHANGED indexBound
    /\ UNCHANGED outsideVData

\* vertexDataIndex of an instance is assigned: the value is clamped to the
\* range of the instance, and a bound instance takes it as well.
SetVertexDataIndex(m, i) ==
    /\ LET v == Clamped(i, vertexDataIndexMaxval[m])
       IN  vertexDataIndex' =
               [ n \in MeshInstances |->
                   IF n = m \/ indexBound THEN v ELSE vertexDataIndex[n] ]
    /\ vdataPropagated' = FALSE
    /\ UNCHANGED << vertexData, vertexDataSets, meshVertexData,
                    meshVertexDataRange, vertexDataIndexMaxval, indexBound >>
    /\ UNCHANGED outsideVData

\* Whether the volume properties of the child are synced to the master is a
\* setting of the display context.
InitVData ==
    /\ IdleOutsideVData
    /\ VDataConstructed
    /\ indexBound \in BOOLEAN

NextVData ==
    \/ \E f \in { None } \cup VDataFiles : SetVertexData(f)
    \/ \E m \in MeshInstances, i \in IndexInputs : SetVertexDataIndex(m, i)

SpecVData == InitVData /\ [][NextVData]_vars

-----------------------------------------------------------------------------
(* Power spectrum series: plotting/powerspectrumseries.py                   *)

\* A complex number is the pair of its real and its imaginary part, both
\* whole.  A time series is the pair of its dtype and its four samples; a
\* real series holds complex samples with an imaginary part of 0.  The
\* sample time is 1, and a frequency k stands for k / 4.
Re(z) == z[1]

Im(z) == z[2]

Plus(z, w) == << Re(z) + Re(w), Im(z) + Im(w) >>

\* z times i to the power of q.
Rot(z, q) ==
    CASE q % 4 = 0 -> z
      [] q % 4 = 1 -> << 0 - Im(z), Re(z) >>
      [] q % 4 = 2 -> << 0 - Re(z), 0 - Im(z) >>
      [] q % 4 = 3 -> << Im(z), 0 - Re(z) >>

\* The time series a voxel may hold.
DataSets ==
    { << "real",    << << 5, 0 >>, << 0, 0 >>, << 0, 0 >>, << 0, 0 >> >> >>,
      << "real",    << << 0, 0 >>, << 3, 0 >>, << 0, 0 >>, << 0, 0 >> >> >>,
      << "complex", << << 3, 4 >>, << 0, 0 >>, << 0, 0 >>, << 0, 0 >> >> >>,
      << "complex", << << 0, 0 >>, << 0, 5 >>, << 0, 0 >>, << 0, 0 >> >> >> }

IsComplex(data) == data[1] = "complex"

Samples(data) == data[2]

\* The sum over n < upto of x[n] * exp(-2 pi i n k / 4): the factor is i to
\* the power of -(n k).
RECURSIVE DFTSum(_, _, _)
DFTSum(x, k, upto) ==
    IF upto = 0 THEN << 0, 0 >>
    ELSE Plus(DFTSum(x, k, upto - 1),
              Rot(x[upto], (0 - (upto - 1) * k) % 4))

\* numpy.fft.fft.
fft(x) == [ j \in 1 .. Len(x) |-> DFTSum(x, j - 1, Len(x)) ]

\* numpy.fft.rfft: the terms 0 .. n/2 of the transform.
rfft(x) == SubSeq(fft(x), 1, Len(x) \div 2 + 1)

\* numpy.fft.fftshift: the zero frequency moves to the middle.
fftshift(s) ==
    [ j \in 1 .. Len(s) |-> s[((j - 1 + Len(s) \div 2) % Len(s)) + 1] ]

\* numpy.fft.fftfreq and rfftfreq, as multiples of 1 / 4.
fftfreq(n) == [ j \in 1 .. n |-> IF j - 1 < n \div 2 THEN j - 1 ELSE j - 1 - n ]

rfftfreq(n) == [ j \in 1 .. n \div 2 + 1 |-> j - 1 ]

\* The whole part of the square root of n.
Sqrt(n) == CHOOSE r \in 0 .. n : r * r <= n /\ n < (r + 1) * (r + 1)

\* powerspectrumseries.py:91-95.
magnitude(vals) ==
    [ j \in 1 .. Len(vals) |->
        Sqrt(Re(vals[j]) * Re(vals[j]) + Im(vals[j]) * Im(vals[j])) ]

\* powerspectrumseries.py:98-102.
phase(vals) ==
    [ j \in 1 .. Len(vals) |-> << "arctan2", Im(vals[j]), Re(vals[j]) >> ]

\* powerspectrumseries.py:105-113.  An array of values is the pair of a mark
\* and the values: the mark "normalised" stands for the rescaling, which
\* the values leave out.
normalise(array) == << "normalised", array[2] >>

\* powerspectrumseries.py:41-65.
calcPowerSpectrum(data) ==
    IF IsComplex(data)
    THEN << "raw", fftshift(fft(Samples(data))) >>
    ELSE << "raw", magnitude(Tail(rfft(Samples(data)))) >>

\* powerspectrumseries.py:68-88.
calcFrequencies(data) ==
    IF IsComplex(data)
    THEN fftshift(fftfreq(Len(Samples(data))))
    ELSE Tail(rfftfreq(Len(Samples(data))))

TypeError == << "TypeError" >>

phaseCorrection_guarded(spectrum, freqs, p0, p1) ==
    IF freqs = NoData \/ spectrum = NoData THEN spectrum
    ELSE << spectrum[1],
            [ j \in 1 .. Len(freqs) |->
                Rot(spectrum[2][j], p0 \div 90 + freqs[j] * p1) ] >>

\* powerspectrumseries.py:116-126: exp(1j * 2 * pi * (p0 / 360 + freqs * p1))
\* turns the value at the frequency k / 4 by p0 / 90 + k * p1 quarters.
\* freqs * p1 is a TypeError when freqs is None.
phaseCorrection(spectrum, freqs, p0, p1) ==
    IF freqs = NoData THEN TypeError
    ELSE << spectrum[1],
            [ j \in 1 .. Len(freqs) |->
                Rot(spectrum[2][j], p0 \div 90 + freqs[j] * p1) ] >>

\* powerspectrumseries.py:177-191: VoxelPowerSpectrumSeries.getData.
VoxelGetDataOf(data, norm) ==
    IF data = NoData THEN << NoData, NoData >>
    ELSE LET xdata == calcFrequencies(data)
             ydata == calcPowerSpectrum(data)
         IN  << xdata, IF norm THEN normalise(ydata) ELSE ydata >>

\* powerspectrumseries.py:268-275: what ComplexPowerSpectrumSeries.getData
\* is about to cache.
Corrected(data, norm, p0, p1) ==
    LET got == VoxelGetDataOf(data, norm)
    IN  IF p0 # 0 \/ p1 # 0
        THEN << got[1], phaseCorrection(got[2], got[1], p0, p1) >>
        ELSE got

\* The real and the imaginary part of an array of complex values.
RealOf(array) ==
    << array[1], [ j \in 1 .. Len(array[2]) |-> Re(array[2][j]) ] >>

ImagOf(array) ==
    << array[1], [ j \in 1 .. Len(array[2]) |-> Im(array[2][j]) ] >>

MagnitudeOf(array) == << array[1], magnitude(array[2]) >>

PhaseOf(array) == << array[1], phase(array[2]) >>

\* powerspectrumseries.py:336-344, 375-380, 411-416: getData of the three
\* series that read the cache of their parent.
ChildGetDataOf(series, cached) ==
    LET xdata == cached[1]
        ydata == cached[2]
    IN  IF ydata = NoData THEN << xdata, ydata >>
        ELSE CASE series = "imaginary" -> << xdata, ImagOf(ydata) >>
               [] series = "magnitude" -> << xdata, MagnitudeOf(ydata) >>
               [] series = "phase"     -> << xdata, PhaseOf(ydata) >>

ChildSeries == { "imaginary", "magnitude", "phase" }

ZeroOrderInputs == { 0, 90 }

FirstOrderInputs == { 0, 1 }

\* The cursor moves: to another voxel, or out of the image (None).
PSMoveVoxel(d) ==
    /\ d # voxelData
    /\ voxelData' = d
    /\ UNCHANGED << varNorm, plotReal, zeroOrderPhaseCorrection,
                    firstOrderPhaseCorrection, cachedData, lastCall >>
    /\ UNCHANGED outsidePS

PSSetVarNorm(b) ==
    /\ b # varNorm
    /\ varNorm' = b
    /\ UNCHANGED << voxelData, plotReal, zeroOrderPhaseCorrection,
                    firstOrderPhaseCorrection, cachedData, lastCall >>
    /\ UNCHANGED outsidePS

PSSetPlotReal(b) ==
    /\ b # plotReal
    /\ plotReal' = b
    /\ UNCHANGED << voxelData, varNorm, zeroOrderPhaseCorrection,
                    firstOrderPhaseCorrection, cachedData, lastCall >>
    /\ UNCHANGED outsidePS

PSSetPhaseCorrection(p0, p1) ==
    /\ << p0, p1 >> # << zeroOrderPhaseCorrection, firstOrderPhaseCorrection >>
    /\ zeroOrderPhaseCorrection' = p0
    /\ firstOrderPhaseCorrection' = p1
    /\ UNCHANGED << voxelData, varNorm, plotReal, cachedData, lastCall >>
    /\ UNCHANGED outsidePS

\* powerspectrumseries.py:177-191, on a VoxelPowerSpectrumSeries.
VoxelGetData ==
    /\ lastCall' = Call(1 - lastCall.seq, "voxel", FALSE,
                        VoxelGetDataOf(voxelData, varNorm))
    /\ UNCHANGED << voxelData, varNorm, plotReal, zeroOrderPhaseCorrection,
                    firstOrderPhaseCorrection, cachedData >>
    /\ UNCHANGED outsidePS

\* powerspectrumseries.py:254-291: ComplexPowerSpectrumSeries.getData, on
\* the series of a complex image.  An exception of phaseCorrection leaves
\* the method before the cache is assigned.
ComplexGetData ==
    /\ IF voxelData = NoData THEN TRUE ELSE IsComplex(voxelData)
    /\ LET got == Corrected(voxelData, varNorm, zeroOrderPhaseCorrection,
                            firstOrderPhaseCorrection)
           xdata == got[1]
           ydata == got[2]
       IN  IF ydata = TypeError
           THEN /\ lastCall' = Call(1 - lastCall.seq, "complex", TRUE,
                                    << NoData, NoData >>)
                /\ UNCHANGED cachedData
           ELSE /\ cachedData' = << xdata, ydata >>
                /\ lastCall' =
                       Call(1 - lastCall.seq, "complex", FALSE,
                            IF ~plotReal THEN << NoData, NoData >>
                            ELSE IF ydata # NoData
                            THEN << xdata, RealOf(ydata) >>
                            ELSE << xdata, ydata >>)
    /\ UNCHANGED << voxelData, varNorm, plotReal, zeroOrderPhaseCorrection,
                    firstOrderPhaseCorrection >>
    /\ UNCHANGED outsidePS

\* powerspectrumseries.py:336-344, 375-380, 411-416.
ChildGetData(series) ==
    /\ lastCall' = Call(1 - lastCall.seq, series, FALSE,
                        ChildGetDataOf(series, cachedData))
    /\ UNCHANGED << voxelData, varNorm, plotReal, zeroOrderPhaseCorrection,
                    firstOrderPhaseCorrection, cachedData >>
    /\ UNCHANGED outsidePS

InitPS == IdleOutsidePS /\ IdlePS

NextPS ==
    \/ \E d \in { NoData } \cup DataSets : PSMoveVoxel(d)
    \/ \E b \in BOOLEAN : PSSetVarNorm(b)
    \/ \E b \in BOOLEAN : PSSetPlotReal(b)
    \/ \E p0 \in ZeroOrderInputs, p1 \in FirstOrderInputs :
           PSSetPhaseCorrection(p0, p1)
    \/ VoxelGetData
    \/ ComplexGetData
    \/ \E s \in ChildSeries : ChildGetData(s)

SpecPS == InitPS /\ [][NextPS]_vars

-----------------------------------------------------------------------------
(* Properties                                                               *)

LMD == "LeftMouseDown"

LMDrag == "LeftMouseDrag"

RMD == "RightMouseDown"

\* An alternate entry of d whose target pair is a source key of d again.
Chained(d) == { e \in Range(d) : HasKey(d, e[2]) }

C2_CanonicalKeys ==
    /\ \A cls \in Keys(tempModeMap) :
           LET d == TempMapOf(cls)
           IN  /\ \A e \in Range(d) : e[1][2] = Canon(SeqToSet(e[1][2]))
               /\ \A i, j \in DOMAIN d :
                      (/\ d[i][1][1] = d[j][1][1]
                       /\ SeqToSet(d[i][1][2]) = SeqToSet(d[j][1][2]))
                          => d[i][1] = d[j][1]
    /\ \A e \in Range(TempMapOf(profile)) :
           (e[1][1] = mode /\ SeqToSet(e[1][2]) = held) => tempMode = e[2]

\* C2 witness: the two-key combination of the OrthoViewProfile is held and
\* its entry is found.
C2_Witness ==
    /\ profile = "OrthoViewProfile"
    /\ mode = "nav"
    /\ held = { "SHIFT", "CONTROL" }
    /\ tempMode = "bricon"

\* C3: on an OrthoViewProfile in the effective mode nav, a RightMouseDown
\* invokes the handler method of (zoom, RightMouseDown) and not the one of
\* (nav, RightMouseDown), although (zoom, RightMouseDown) is a source key of
\* the alternate map too.
C3_NavRightMouseDown ==
    (profile = "OrthoViewProfile" /\ lastEvent = << "nav", RMD >>)
        => /\ << "zoom", RMD >> \in methods
           /\ HasKey(AltMapOf(profile), << "zoom", RMD >>)
           /\ calls # << >>
           /\ calls[1].method = << "zoom", RMD >>
           /\ \A i \in DOMAIN calls : calls[i].method # << "nav", RMD >>

\* C3 witness: the profile has a method of its own for (nav, RightMouseDown),
\* and the RightMouseDown in nav mode went to the zoom handler.
C3_Witness ==
    /\ profile = "OrthoViewProfile"
    /\ lastEvent = << "nav", RMD >>
    /\ << "nav", RMD >> \in methods
    /\ calls = << Invoke(<< "zoom", RMD >>, TRUE) >>

\* C4: when the handler resolved for (mode, event) returns False and the
\* fallback map has an entry for (mode, event), dispatch next invokes the
\* handler of the fallback target; on an OrthoViewProfile in pick mode a
\* declined LeftMouseDown (LeftMouseDrag) is followed by nav's LeftMouseDown
\* (LeftMouseDrag) handler.
C4_FallbackInvoked ==
    /\ \A e \in Range(FallbackMapOf(profile)) :
           (/\ lastEvent = e[1]
            /\ calls # << >>
            /\ calls[1].ret = FALSE
            /\ e[2] \in methods)
               => (Len(calls) = 2 /\ calls[2].method = e[2])
    /\ \A ev \in { LMD, LMDrag } :
           (/\ profile = "OrthoViewProfile"
            /\ lastEvent = << "pick", ev >>
            /\ calls # << >>
            /\ calls[1].ret = FALSE)
               => (Len(calls) = 2 /\ calls[2].method = << "nav", ev >>)

\* C4 witness: a LeftMouseDown in pick mode was declined by the pick handler
\* and then given to nav's LeftMouseDown handler.
C4_Witness ==
    /\ profile = "OrthoViewProfile"
    /\ lastEvent = << "pick", LMD >>
    /\ calls = << Invoke(<< "pick", LMDrag >>, FALSE),
                  Invoke(<< "nav", LMD >>, TRUE) >>
    /\ outcome = "handled"

\* C5: if altHandlerMap has an entry for (mode, event), dispatch uses the
\* handler method of the entry's target, also when the profile has a method
\* of its own for (mode, event); without an entry the profile's own method
\* for (mode, event) is used.  On an OrthoEditProfile in sel mode a
\* RightMouseDown calls desel's LeftMouseDown handler.
C5_AlternateFirst ==
    /\ \A e \in Range(AltMapOf(profile)) :
           lastEvent = e[1]
               => /\ calls # << >> => calls[1].method = e[2]
                  /\ e[2] \in methods => calls # << >>
    /\ (lastEvent # NoEvent /\ lastEvent \notin Keys(AltMapOf(profile)))
           => /\ calls # << >> => calls[1].method = lastEvent
              /\ lastEvent \in methods => calls # << >>
    /\ (profile = "OrthoEditProfile" /\ lastEvent = << "sel", RMD >>)
           => (calls # << >> /\ calls[1].method = << "desel", LMD >>)

\* C5 witness: the OrthoEditProfile has a method of its own for
\* (sel, RightMouseDown), and desel's LeftMouseDown handler was called.
C5_Witness ==
    /\ profile = "OrthoEditProfile"
    /\ lastEvent = << "sel", RMD >>
    /\ << "sel", RMD >> \in methods
    /\ calls # << >>
    /\ calls[1].method = << "desel", LMD >>

\* C6: a fallback handler is invoked only after the primary (alternate or
\* native) handler of the event was invoked and returned False; if the
\* primary handler returns True exactly one handler method is invoked; at
\* most two handler methods are invoked per event.
C6_FallbackAfterDecline ==
    /\ Len(calls) <= 2
    /\ calls # << >>
           => calls[1].method = PrimaryOf(profile, lastEvent[1], lastEvent[2])
    /\ (calls # << >> /\ calls[1].ret) => Len(calls) = 1
    /\ Len(calls) = 2
           => /\ calls[1].ret = FALSE
              /\ HasKey(FallbackMapOf(profile), lastEvent)
              /\ calls[2].method = Get(FallbackMapOf(profile), lastEvent)
    /\ outcome = "handled" <=> (calls # << >> /\ calls[Len(calls)].ret)

\* C6 witness: the primary handler and the fallback handler both declined.
C6_Witness ==
    /\ Len(calls) = 2
    /\ calls[1].ret = FALSE
    /\ calls[2].ret = FALSE
    /\ outcome = "unhandled"

\* A pair with no handler method, no alternate entry and no fallback entry.
Unbound(cls, meths, pair) ==
    /\ pair \notin meths
    /\ ~HasKey(AltMapOf(cls), pair)
    /\ ~HasKey(FallbackMapOf(cls), pair)

\* C7: the dispatch of an event for a (mode, event) pair with no native
\* handler method, no alternate entry and no fallback entry is unhandled,
\* raises no error, invokes no handler method and leaves the mode unchanged.
C7_Unhandled ==
    [][ (lastEvent' # NoEvent /\ Unbound(profile, methods, lastEvent'))
            => /\ outcome' = "unhandled"
               /\ calls' = << >>
               /\ mode' = mode
               /\ tempMode' = tempMode
               /\ profile' = profile ]_vars

\* C7 witness: a mouse wheel event in nav mode on an OrthoViewProfile without
\* a method for it.
C7_Witness ==
    /\ profile = "OrthoViewProfile"
    /\ lastEvent = << "nav", "MouseWheel" >>
    /\ Unbound(profile, methods, lastEvent)
    /\ calls = << >>
    /\ outcome = "unhandled"

\* The entries of a temporary-mode map registered for exactly the base mode
\* and the set of held keys.
ExactEntries(d, base, keys) ==
    { e \in Range(d) :
        /\ e[1][1] = base
        /\ SeqToSet(e[1][2]) = keys
        /\ Len(e[1][2]) = Cardinality(keys) }

C9_State ==
    /\ LET es == ExactEntries(TempMapOf(profile), mode, held)
       IN  /\ es # {} => \A e \in es : EffectiveMode = e[2]
           /\ es = {} => EffectiveMode = mode
    /\ held = {} => EffectiveMode = mode
    /\ (profile = "OrthoViewProfile" /\ mode = "nav")
           => /\ held = { "CONTROL" } => EffectiveMode = "zoom"
              /\ held = {} => EffectiveMode = "nav"

C10_ModeTableTotal ==
    /\ \A i \in DOMAIN profiles :
           \A p \in Range(profiles[i][2]) :
               /\ KeyCount(profileHandlers, << profiles[i][1], p >>) = 1
               /\ ModeResolution(profiles[i][1], p) \in ProfileClasses
    /\ \A k \in Keys(profileHandlers) : k[2] \in ProfileOptions(k[1])
    /\ profileName \in ProfileOptions(viewType)
    /\ profile = ModeResolution(viewType, profileName)
    /\ profile \in ProfileClasses

\* C10 witness: the annotate profile of an OrthoPanel.
C10_Witness ==
    /\ viewType = "OrthoPanel"
    /\ profileName = "annotate"
    /\ profile = "OrthoAnnotateProfile"

\* The redirect entries of a Profile class: those of its alternate-handler
\* map and those of its fallback map.
RedirectEdges(cls) == Range(AltMapOf(cls)) \cup Range(FallbackMapOf(cls))

\* The pairs with a redirect entry that one redirect step from a pair of S
\* leads to.
RedirectStep(cls, S) ==
    { e[2] : e \in { x \in RedirectEdges(cls) : x[1] \in S } }
        \cap RedirectKeys(cls)

RECURSIVE ChainsEnd(_, _, _)
\* Every chain of redirect entries that starts at a pair of S reaches a pair
\* with no further entry within n steps.
ChainsEnd(cls, S, n) ==
    \/ S = {}
    \/ n > 0 /\ ChainsEnd(cls, RedirectStep(cls, S), n - 1)

\* The redirect graph of a class has no cycle: a chain through k source
\* pairs, k the number of source pairs, has ended.
Acyclic(cls) ==
    ChainsEnd(cls, RedirectKeys(cls), Cardinality(RedirectKeys(cls)))

\* C11: for every profile class, following alternate-handler and fallback
\* entries from any (mode, event) pair reaches a pair with no further entry
\* after finitely many steps: the redirect graph of altHandlerMap and
\* fallbackHandlerMap has no cycle.  So do the chains from the pair an event
\* was dispatched for.
C11_NoRedirectCycle ==
    /\ \A cls \in ProfileClasses : Acyclic(cls)
    /\ lastEvent # NoEvent
           => ChainsEnd(profile, { lastEvent } \cap RedirectKeys(profile),
                        Cardinality(RedirectKeys(profile)))

\* C11 witness: a LeftMouseDown in slice mode, redirected to
\* (pick, LeftMouseDown), which has an alternate entry and a fallback entry,
\* whose targets have entries again.
C11_Witness ==
    /\ profile = "OrthoViewProfile"
    /\ lastEvent = << "slice", LMD >>
    /\ calls # << >>
    /\ calls[1].method = << "pick", LMD >>
    /\ HasKey(AltMapOf(profile), << "pick", LMD >>)
    /\ HasKey(FallbackMapOf(profile), << "pick", LMD >>)
    /\ HasKey(AltMapOf(profile), << "nav", LMD >>)

\* C13: a redirect entry, alternate or fallback, whose target has no handler
\* method on the profile class is reported as a fatal configuration error by
\* the validation pass at startup, before any event is dispatched, and never
\* makes a dispatch fail.
C13_StartupValidation ==
    /\ startup = "error" <=>
           (startup # "pending" /\ ~(RedirectTargets(profile) \subseteq methods))
    /\ startup # "ok" => lastEvent = NoEvent
    /\ outcome # "error"

\* C13 witness: a handler whose class lacks the method of a redirect target
\* has been through the validation pass.
C13_Witness ==
    /\ startup = "error"
    /\ \E e \in RedirectEdges(profile) : e[2] \notin methods
    /\ lastEvent = NoEvent

\* C12: input events are dispatched one at a time in arrival order.  Every
\* handler invocation caused by event k, the first handler and after a
\* decline the fallback handler, has ended before an invocation caused by
\* event k+1 begins, and the effective mode used for event k is the one
\* determined by the inputs that arrived before k.
C12_ArrivalOrder ==
    /\ \A i, j \in DOMAIN trace : i < j => trace[i].id <= trace[j].id
    /\ \A i \in DOMAIN trace :
           /\ trace[i].mode = trace[i].expect
           /\ (trace[i].at = "begin" /\ i < Len(trace)) =>
                  /\ trace[i + 1].at = "end"
                  /\ trace[i + 1].id = trace[i].id
                  /\ trace[i + 1].handler = trace[i].handler
    /\ (trace # << >> /\ trace[Len(trace)].at = "begin") => running # NotRunning

\* C12 witness: the first handler of event 1, dispatched in pick mode,
\* declined and the fallback handler ran; event 2 was then dispatched in the
\* slice mode, after a mode request and a key press that came between them.
C12_Witness ==
    /\ Len(trace) >= 5
    /\ trace[1].id = 1 /\ trace[1].mode = "pick"
    /\ trace[3].id = 1 /\ trace[3].at = "begin"
    /\ trace[3].handler = << "nav", LMD >>
    /\ trace[4].id = 1 /\ trace[4].at = "end"
    /\ trace[5].id = 2 /\ trace[5].at = "begin" /\ trace[5].mode = "slice"

\* The correlation jobs in flight: computation threads running and updates
\* waiting on the idle loop.
CorrInFlight == Len(corrThreads) + Len(corrIdleQ)

\* C15: at most one correlation job of a CorrelateAction is in flight at any
\* time.  From the moment a request is accepted until its update on the main
\* thread has finished, every further invocation returns without starting a
\* thread, without scheduling an update and without changing the overlay list
\* or the two dictionaries.
C15_OneJobInFlight ==
    /\ [](CorrInFlight <= 1 /\ (CorrInFlight = 1 => corrFlag))
    /\ [][(CorrInFlight = 1
             /\ corrStep' \in { "ignored", "novoxel", "accepted" })
          => /\ corrStep' = "ignored"
             /\ UNCHANGED << corrThreads, corrIdleQ, corrList,
                             correlateOverlays, overlayCorrelates,
                             corrFlag >>]_vars

\* C15 witness: the action was invoked while a job was in flight, and the
\* invocation was ignored.
C15_Witness ==
    /\ corrStep = "ignored"
    /\ corrFlag
    /\ CorrInFlight = 1

\* A step in which the action reloaded the selected overlay.
Reloaded == relResult' = "reloaded" /\ relGen' = relGen + 1

\* C16: after ReloadOverlayAction runs, in every DisplayContext, the master
\* one and the one of each view panel, each Display and DisplayOpts property
\* of the reloaded overlay has the value which that same context held for the
\* old overlay immediately before the reload.
C16_SettingsPreserved ==
    [][Reloaded =>
          \A c \in RelCtxs :
              relSettings'[c][relSelected] = relSettings[c][relSelected]]_vars

\* C16, what the action does instead: every DisplayContext gets the values
\* the master DisplayContext held for the old overlay.
C16_MasterSettingsEverywhere ==
    [][Reloaded =>
          \A c \in RelCtxs :
              relSettings'[c][relSelected] = relSettings["master"][relSelected]]_vars

\* C17: ReloadOverlayAction replaces the selected overlay in place.  After a
\* successful reload the overlay list has the same length, every other
\* overlay is at the same index as before, and the newly loaded overlay is at
\* the index the old overlay had.
C17_ReplacedInPlace ==
    [][Reloaded =>
          /\ Len(relList') = Len(relList)
          /\ \A i \in 1 .. Len(relList) :
                 i # relSelected => relList'[i] = relList[i]
          /\ relList'[relSelected] =
                 [ relList[relSelected] EXCEPT !.gen = relGen' ]
          /\ relList'[relSelected] \notin SeqToSet(relList)]_vars

\* C17 witness: the first of three overlays was reloaded, the other two are
\* where they were.
C17_Witness ==
    /\ relResult = "reloaded"
    /\ Len(relList) = 3
    /\ relList[1].gen = relGen /\ relGen > 0
    /\ relList[2] = RelOverlays[2]
    /\ relList[3] = RelOverlays[3]

\* C18, first part: invoking ReloadOverlayAction when no overlay is selected,
\* or when the selected overlay is not exactly of type Image, raises
\* RuntimeError and leaves the overlay list and all display settings
\* unchanged.
RuntimeErrorLeavesAll ==
    [][(relResult' # "none"
          /\ (relSelected = 0 \/ relList[relSelected].type # "Image"))
       => /\ relResult' = "RuntimeError"
          /\ UNCHANGED << relList, relSettings, relSelected >>]_vars

\* C18 as stated: the first part, and the action's enabled flag is true only
\* in states where the selected overlay is exactly an Image with a data
\* source that exists on disk.
C18_EnabledOnlyOnDisk ==
    /\ RuntimeErrorLeavesAll
    /\ [](relEnabled => RelEnabledFor(relList, relSelected, relDisk))

\* C18: the first part, and the enabled flag is true only while the
\* selected overlay is exactly an Image with a data source; it is the value
\* computed when the overlay list or the selection last changed, from the
\* files on disk at that moment, and no other step changes it.
C18_EnabledAsLastComputed ==
    /\ RuntimeErrorLeavesAll
    /\ [](relEnabled => /\ relSelected # 0
                        /\ relList[relSelected].type = "Image"
                        /\ relList[relSelected].dataSource # None)
    /\ [][IF relList' # relList \/ relSelected' # relSelected
          THEN relEnabled' = RelEnabledFor(relList', relSelected', relDisk')
          ELSE relEnabled' = relEnabled]_vars

\* C18 witness: the action was invoked with a mesh selected and raised
\* RuntimeError, after a.nii had been deleted while the Image loaded from it
\* was selected.
C18_Witness ==
    /\ relResult = "RuntimeError"
    /\ relSelected # 0
    /\ relList[relSelected].type = "Mesh"
    /\ "a.nii" \notin relDisk
    /\ ~relEnabled

\* The Image overlays currently in the overlay list.
TractImagesListed == SeqToSet(tractList) \cap TractImages

\* C20: after every overlay-list change handled by updateColourClipModes,
\* colourMode is a member of the refreshed options ('orientation', the Image
\* overlays in the list, the vertex data sets) and clipMode a member of
\* (None, those images, those data sets); each keeps its previous value if
\* that is still an option and otherwise reverts to 'orientation' / None, so
\* neither ever refers to an image that has left the overlay list.
C20_ModesWithinOptions ==
    /\ [](/\ SeqToSet(tractColourOptions) =
                { "orientation" } \cup TractImagesListed
                    \cup SeqToSet(tractVData)
          /\ SeqToSet(tractClipOptions) =
                { None } \cup TractImagesListed \cup SeqToSet(tractVData)
          /\ tractColourMode \in SeqToSet(tractColourOptions)
          /\ tractClipMode \in SeqToSet(tractClipOptions)
          /\ tractColourMode \notin TractImages \ TractImagesListed
          /\ tractClipMode \notin TractImages \ TractImagesListed)
    /\ [][tractList' # tractList =>
             /\ tractColourMode' =
                    IF tractColourMode \in SeqToSet(tractColourOptions')
                    THEN tractColourMode ELSE "orientation"
             /\ tractClipMode' =
                    IF tractClipMode \in SeqToSet(tractClipOptions')
                    THEN tractClipMode ELSE None]_vars

\* C20 witness: i1 was the colourMode and i2 the clipMode when i1 left the
\* overlay list; colourMode reverted and clipMode was kept.
C20_Witness ==
    /\ tractSaved = << "i1", "i2" >>
    /\ "i1" \notin SeqToSet(tractList)
    /\ tractColourMode = "orientation"
    /\ tractClipMode = "i2"

\* C19 as stated: for a registered MeshOpts, after any sequence of
\* assignments to MeshOpts.colour and Display.alpha, once the listeners have
\* run colour[3] * 100 equals Display.alpha; each assignment causes exactly
\* one propagation to the other property, and the propagated write does not
\* trigger the opposite listener again.
C19_AlphaEqual ==
    alphaStep # "init" =>
        /\ Times100(meshColour.a) = displayAlpha
        /\ propagations = 1

\* C19: after an assignment to colour, Display.alpha is colour[3] * 100;
\* after an assignment to Display.alpha, alpha is the value assigned and
\* colour[3] is alpha / 100.0; colour[3] * 100 is then the same percentage as
\* alpha, at most one double away from it.  Each assignment that changes the
\* value causes exactly one listener call.
C19_AlphaConsistent ==
    alphaStep # "init" =>
        /\ alphaStep = "colour" => displayAlpha = Times100(meshColour.a)
        /\ alphaStep = "alpha" =>
               /\ displayAlpha.ulp = 0
               /\ meshColour.a = Div100(displayAlpha)
        /\ Times100(meshColour.a).whole = displayAlpha.whole
        /\ displayAlpha.ulp \in { 0 - 1, 0, 1 }
        /\ propagations = 1

\* C19 witness: Display.alpha was set to 7, colour[3] became 0.07, and
\* 0.07 * 100 is the double above 7.
C19_Witness ==
    /\ alphaStep = "alpha"
    /\ displayAlpha = Double(7, 0)
    /\ meshColour.a = 7
    /\ Times100(meshColour.a) = Double(7, 1)
    /\ propagations = 1

\* C14: when a component that registered property listeners is destroyed,
\* every listener it has registered under its name on an object that
\* outlives it (overlay list, display context, Display, reference-image
\* DisplayOpts, mesh overlay) is removed by destroy(): after destroy() of a
\* CorrelateAction, ReloadOverlayAction, TractogramOpts or registered
\* MeshOpts, no change of those objects calls back into the destroyed
\* component.
C14_NoListenerLeft ==
    /\ \A l \in lisListeners : l.name \notin lisDestroyed
    /\ lisCalled \cap lisDestroyed = {}

\* C14 witness: a MeshOpts with a reference image, which had listeners on
\* the name of two Displays and on the transform of the reference image, has
\* been destroyed, as has a CorrelateAction, and the overlays are still in
\* the list.
C14_Witness ==
    /\ { "MeshOpts", "CorrelateAction" } \subseteq lisDestroyed
    /\ meshRefImage = "img2"
    /\ lisList = { "mesh", "img1", "img2" }
    /\ lisCalled = { "ReloadOverlayAction", "TractogramOpts" }

\* What the files hold, apart from what the handler makes of them.
LoadSucceeds(f) == f # None /\ ~LoadRaises(f) /\ ~NanMinRaises(f)

PointsPerVertex(f) == IF Len(FileShape(f)) = 1 THEN 1 ELSE FileShape(f)[2]

AtLeastOne(n) == IF n < 1 THEN 1 ELSE n

\* The state of the instance m that the change of vertexData is to leave.
VertexDataSettled(m) ==
    /\ ~vdataPropagated
    /\ ~LoadSucceeds(vertexData) =>
           /\ getVertexData(m) = None
           /\ getDataRange(m) = << 0, 1 >>
           /\ vertexDataLen(m) = 0
           /\ vertexDataIndex[m] = 0
           /\ vertexDataIndexMaxval[m] = 0
    /\ LoadSucceeds(vertexData) =>
           vertexDataIndexMaxval[m] = PointsPerVertex(vertexData) - 1
    /\ 0 <= vertexDataIndex[m]
    /\ vertexDataIndex[m] < AtLeastOne(vertexDataLen(m))

\* C21 as it is stated: after every change of vertexData, on every MeshOpts
\* instance, no exception has escaped; without loaded data getVertexData()
\* is None, getDataRange() is (0, 1), vertexDataLen() is 0 and
\* vertexDataIndex is 0 with maxval 0; with loaded data vertexDataIndex is
\* reset to 0 and its maxval is the number of points per vertex less one;
\* and 0 <= vertexDataIndex < max(1, vertexDataLen()).
C21_EveryInstance ==
    /\ [](\A m \in MeshInstances : VertexDataSettled(m))
    /\ [][vertexData' # vertexData =>
            \A m \in MeshInstances : vertexDataIndex'[m] = 0]_vars

\* C21 on the instances that listen to vertexData, which are those with a
\* parent: after every change of vertexData no exception has escaped;
\* without loaded data getVertexData() is None, getDataRange() is (0, 1),
\* vertexDataLen() is 0 and vertexDataIndex is 0 with maxval 0; with loaded
\* data vertexDataIndex is reset to 0 and its maxval is the number of points
\* per vertex less one; and 0 <= vertexDataIndex < max(1, vertexDataLen()).
C21_ListeningInstance ==
    /\ [](\A m \in MeshInstances :
            ListensToVertexData(m) => VertexDataSettled(m))
    /\ [][vertexData' # vertexData =>
            \A m \in MeshInstances :
                ListensToVertexData(m) => vertexDataIndex'[m] = 0]_vars

\* A file that cannot be loaded is selected after a time series was loaded:
\* the child is back to no data and a maxval of 0.
C21_Witness ==
    /\ vertexData = "corrupt"
    /\ "timeseries" \in vertexDataSets
    /\ getVertexData("child") = None
    /\ vertexDataIndexMaxval["child"] = 0

\* A getData of the series s has just been called.
Called(s) == lastCall' # lastCall /\ lastCall'.series = s

\* What a call of ComplexPowerSpectrumSeries.getData is to save: the
\* frequencies and the phase-corrected spectrum of the data at the voxel,
\* and (None, None) where there is no data.
SpectrumAtVoxel ==
    IF voxelData = NoData THEN << NoData, NoData >>
    ELSE LET got == VoxelGetDataOf(voxelData, varNorm)
         IN  << got[1],
                phaseCorrection_guarded(got[2], got[1],
                                        zeroOrderPhaseCorrection,
                                        firstOrderPhaseCorrection) >>

\* What the three series return.
ChildrenReadCache ==
    \A s \in ChildSeries :
        Called(s) =>
            /\ ~lastCall'.raised
            /\ lastCall'.value[1] = cachedData[1]
            /\ lastCall'.value[2] =
                   IF cachedData[2] = NoData THEN NoData
                   ELSE CASE s = "imaginary" -> ImagOf(cachedData[2])
                          [] s = "magnitude" -> MagnitudeOf(cachedData[2])
                          [] s = "phase"     -> PhaseOf(cachedData[2])

\* C22 as it is stated: every call of ComplexPowerSpectrumSeries.getData
\* saves the frequencies and the phase-corrected spectrum of the data at the
\* voxel as cachedData, whatever plotReal is; the getData of the imaginary,
\* magnitude and phase series returns the cached frequencies and that part
\* of the cached spectrum; before the first call of the parent the cache is
\* (None, None).
C22_EveryCallSaves ==
    /\ cachedData = << NoData, NoData >>
    /\ [][/\ Called("complex") => cachedData' = SpectrumAtVoxel
          /\ ChildrenReadCache]_vars

\* C22 for the calls that return: a call of
\* ComplexPowerSpectrumSeries.getData that returns has saved the frequencies
\* and the phase-corrected spectrum, whatever plotReal is, and one that
\* raises has left the cache as it was; the three series return the parts
\* of what is cached.
C22_ReturningCallSaves ==
    /\ cachedData = << NoData, NoData >>
    /\ [][/\ Called("complex") =>
               IF lastCall'.raised THEN cachedData' = cachedData
               ELSE cachedData' = SpectrumAtVoxel
          /\ ChildrenReadCache]_vars

\* C23 as it is stated: without data at the voxel, getData of the voxel
\* series and of the complex series returns (None, None) and does not
\* raise, whatever varNorm, plotReal and the two phase corrections are, and
\* the cache of the complex series becomes (None, None).
C23_NoDataNoRaise ==
    [][voxelData = NoData =>
         /\ Called("voxel") \/ Called("complex") =>
                ~lastCall'.raised /\ lastCall'.value = << NoData, NoData >>
         /\ Called("complex") => cachedData' = << NoData, NoData >>]_vars

\* C23 with both phase corrections at 0, and what happens otherwise: without
\* data at the voxel the voxel series returns (None, None); the complex
\* series returns (None, None) and caches (None, None) when both phase
\* corrections are 0, and raises and leaves the cache when one is not.
C23_NoDataUncorrected ==
    [][voxelData = NoData =>
         /\ Called("voxel") =>
                ~lastCall'.raised /\ lastCall'.value = << NoData, NoData >>
         /\ Called("complex") =>
                IF zeroOrderPhaseCorrection = 0
                       /\ firstOrderPhaseCorrection = 0
                THEN /\ ~lastCall'.raised
                     /\ lastCall'.value = << NoData, NoData >>
                     /\ cachedData' = << NoData, NoData >>
                ELSE /\ lastCall'.raised
                     /\ cachedData' = cachedData]_vars

====
